---- MODULE Spec2Model ----
(***************************************************************************)
(* Model of the token-map strategy with clean fallback                     *)
(* (src/src/scripts/verify-word-api.js, verifyTokenMapStrategy) and of the *)
(* cursor-based replay (verifyChunkSearch) used as the secondary strategy. *)
(*                                                                         *)
(* Text is a sequence of one-character strings.  The document range is a   *)
(* sequence of cells; a cell keeps the position it had when the range was  *)
(* last (re)filled (id, 0 for inserted text) and a flag telling whether it *)
(* has been deleted.  A range handle is a pair of cell ids, so that it     *)
(* keeps denoting the same document location while the range is edited.    *)
(***************************************************************************)
EXTENDS Integers, Sequences, FiniteSets, TLC

\* Bound of the model: total number of characters in the chunks of a diff.
MaxDiffChars == 3

\* One character of each class of the token regex /(\w+|[^\w\s]+|\s+)/g.
WordChars == {"a"}
PunctChars == {"-"}
SpaceChars == {" "}
Alphabet == WordChars \cup PunctChars \cup SpaceChars

\* A whitespace character (\s) that is not the delimiter of the coarse split.
TabChars == {"\t"}

\* Diff encoding: (opCode, text), opCode in {-1 (delete), 0 (equal), 1 (insert)}.
OP_DELETE == -1
OP_EQUAL == 0
OP_INSERT == 1

VARIABLES
    pc,              \* position of verifyTokenMapStrategy
    diffs,           \* result of computeDiff(text1, text2)
    text1,           \* original text
    text2,           \* revised text
    doc,             \* the paragraph: sequence of cells
    trackMode,       \* context.document.changeTrackingMode
    coarseRanges,    \* coarseRanges.items
    fineTokens,      \* refined token map
    deleteTargets,   \* Pass 1 result
    tokenIndex,      \* Pass 1 cursor
    di,              \* index of the next diff op of the running loop
    currentTokenIdx, \* Pass 2 cursor into tokensAfterDeletes
    lastAnchor,      \* token whose range is lastAnchorRange, or NoToken
    insertOps,       \* Pass 2 result
    queue,           \* requests queued against the host since the last sync
    exc,             \* exception caught by the try/catch of the strategy
    unresolved,      \* token text named by the token mapping failure
    thrown,          \* exception that left verifyTokenMapStrategy
    cursor,          \* cursorRange of the replay: number of cells before it
    execCount,       \* number of times the execution phase has run
    resetCount,      \* number of times the paragraph has been reset
    secCount,        \* number of times the secondary strategy was started
    pending,         \* values whose load is queued and not yet synced
    loaded,          \* values whose load has been carried out by a sync
    unsyncedRead,    \* TRUE once a value was read that was not loaded
    isProcessing,    \* taskpane: a review is in progress
    btnDisabled,     \* taskpane: the review button is disabled
    config,          \* taskpane: trackChangesEnabled, lineDiffEnabled
    promptText,      \* taskpane: the trimmed text of the prompt box
    calls,           \* taskpane: the invocations of handleReviewSelection
    target,          \* verifyTrackedChanges: startOffset, length, target, targetRange
    body,            \* verifyBlockDeletion: the paragraphs of the body
    loadedText,      \* verifyBlockDeletion: p2.text as loaded
    storage,         \* localStorage item wordAI.config
    env,             \* process.env.DEFAULT_OLLAMA_URL, DEFAULT_MODEL
    savedConfig,     \* the configuration of the last saveSettings that succeeded
    prompts,         \* taskpane: the in-memory prompt list
    promptStore,     \* localStorage item wordAI.prompts
    loadPc,          \* position of the loadPrompts call started by initialize
    options,         \* the prompt ids rendered in the prompt selector
    savedIds,        \* ids saved with handleSavePrompt and not deleted since
    reqPath,         \* static server: the decoded path of the request
    served,          \* static server: the file read, or the status answered
    control,         \* global.e2eLoopControl
    lastStatus,      \* the last response of GET /api/e2e-loop/status
    requests,        \* the requests to the loop control since the start
    userPrompts,     \* the prompts stored in user-prompts.json
    apiResponse      \* the last response of GET /api/prompts

vars == <<pc, diffs, text1, text2, doc, trackMode, coarseRanges, fineTokens,
          deleteTargets, tokenIndex, di, currentTokenIdx, lastAnchor,
          insertOps, queue, exc, unresolved, thrown, cursor, execCount,
          resetCount, secCount, pending, loaded, unsyncedRead,
          isProcessing, btnDisabled, config, promptText, calls,
          target, body, loadedText, storage, env, savedConfig, prompts,
          promptStore, loadPc, options, savedIds, reqPath, served, control,
          lastStatus, requests, userPrompts, apiResponse>>

apiTestVars == <<target, body, loadedText>>

settingsVars == <<storage, env, savedConfig>>

promptVars == <<prompts, promptStore, loadPc, options, savedIds>>

serverVars == <<reqPath, served>>

loopVars == <<control, lastStatus, requests>>

apiVars == <<userPrompts, apiResponse>>

auxVars == <<settingsVars, promptVars, serverVars, loopVars, apiVars>>

reviewVars == <<isProcessing, btnDisabled, config, promptText, calls>>

----------------------------------------------------------------------------
\* Text helpers

Min(a, b) == IF a < b THEN a ELSE b

\* String.prototype.startsWith
StartsWith(s, p) ==
    /\ Len(p) <= Len(s)
    /\ SubSeq(s, 1, Len(p)) = p

\* String.prototype.slice(n)
SliceFrom(s, n) == SubSeq(s, n + 1, Len(s))

RECURSIVE Concat(_)
Concat(ss) == IF ss = <<>> THEN <<>> ELSE Head(ss) \o Concat(Tail(ss))

CharClass(c) ==
    IF c \in WordChars THEN "w"
    ELSE IF c \in SpaceChars \cup TabChars THEN "s" ELSE "p"

\* Length of the maximal run of characters of one class at the head of s.
RECURSIVE RunLen(_)
RunLen(s) ==
    IF Len(s) <= 1 THEN Len(s)
    ELSE IF CharClass(s[1]) = CharClass(s[2]) THEN 1 + RunLen(Tail(s))
    ELSE 1

\* s.match(/(\w+|[^\w\s]+|\s+)/g) || []
RECURSIVE RegexTokens(_)
RegexTokens(s) ==
    IF s = <<>> THEN <<>>
    ELSE LET n == RunLen(s)
         IN  <<SubSeq(s, 1, n)>> \o RegexTokens(SliceFrom(s, n))

\* 1-based position of the first occurrence of needle in hay, 0 when absent.
FirstMatch(hay, needle) ==
    LET starts == {i \in 1..(Len(hay) - Len(needle) + 1) :
                      SubSeq(hay, i, i + Len(needle) - 1) = needle}
    IN  IF starts = {} THEN 0
        ELSE CHOOSE i \in starts : \A j \in starts : i <= j

----------------------------------------------------------------------------
\* Diffs

\* Concatenation of the chunks whose op code is in kinds, in order.
RECURSIVE ChunksOf(_, _)
ChunksOf(ds, kinds) ==
    IF ds = <<>> THEN <<>>
    ELSE (IF Head(ds)[1] \in kinds THEN Head(ds)[2] ELSE <<>>)
         \o ChunksOf(Tail(ds), kinds)

OriginalOf(ds) == ChunksOf(ds, {OP_EQUAL, OP_DELETE})
RevisedOf(ds) == ChunksOf(ds, {OP_EQUAL, OP_INSERT})

Chunks(n) == UNION {[1..k -> Alphabet] : k \in 1..n}

\* Non-empty op sequences whose chunks hold at most `budget` characters.
RECURSIVE DiffsWithin(_)
DiffsWithin(budget) ==
    {<<>>} \cup
    UNION {{<<<<o, c>>>> \o rest : rest \in DiffsWithin(budget - Len(c))} :
              o \in {OP_DELETE, OP_EQUAL, OP_INSERT}, c \in Chunks(budget)}

DiffSeqs == DiffsWithin(MaxDiffChars) \ {<<>>}

----------------------------------------------------------------------------
\* Host document

NoRange == [s |-> -1, e |-> -1]
StartRange == [s |-> 0, e |-> 0]
NoToken == [index |-> -1, text |-> <<>>, range |-> NoRange]

\* paragraph.clear(); paragraph.insertText(text, start)
FillDoc(text) == [i \in 1..Len(text) |-> [ch |-> text[i], id |-> i, del |-> FALSE]]

\* Text of the range with the tracked changes accepted.
RECURSIVE VisibleText(_)
VisibleText(d) ==
    IF d = <<>> THEN <<>>
    ELSE (IF Head(d).del THEN <<>> ELSE <<Head(d).ch>>) \o VisibleText(Tail(d))

\* paragraph.getTextRanges([" "], false): every range ends with its delimiter.
RECURSIVE CoarseSplit(_, _)
CoarseSplit(text, base) ==
    IF text = <<>> THEN <<>>
    ELSE LET sp == {i \in 1..Len(text) : text[i] = " "}
             n == IF sp = {} THEN Len(text)
                  ELSE CHOOSE i \in sp : \A j \in sp : i <= j
         IN  <<[s |-> base + 1, e |-> base + n, text |-> SubSeq(text, 1, n)]>>
             \o CoarseSplit(SliceFrom(text, n), base + n)


\* range.delete() on the range handle r
DeleteRange(d, r) ==
    [i \in 1..Len(d) |->
        IF d[i].id # 0 /\ d[i].id >= r.s /\ d[i].id <= r.e
        THEN [d[i] EXCEPT !.del = TRUE] ELSE d[i]]

NewCells(text) == [i \in 1..Len(text) |-> [ch |-> text[i], id |-> 0, del |-> FALSE]]

InsertAt(d, pos, text) ==
    SubSeq(d, 1, pos) \o NewCells(text) \o SubSeq(d, pos + 1, Len(d))

\* Number of cells up to and including the end of the range handle r.
EndOfRange(d, r) ==
    IF r.e = 0 THEN 0
    ELSE LET hit == {i \in 1..Len(d) : d[i].id = r.e}
         IN  IF hit = {} THEN 0 ELSE CHOOSE i \in hit : TRUE

\* Number of consecutive inserted cells that follow position pos.
RECURSIVE InsertedRun(_, _)
InsertedRun(d, pos) ==
    IF pos < Len(d) /\ d[pos + 1].id = 0 THEN 1 + InsertedRun(d, pos + 1) ELSE 0

\* anchor.insertText(text, location) for location After (of a token range) or
\* Before (of the collapsed start range).  The handle does not say on which
\* side of text inserted earlier at the same place the new text lands: the
\* host puts it next to the anchor (adjacent) or behind the earlier text.
InsertText(d, r, text, adjacent) ==
    LET pos == EndOfRange(d, r)
    IN  InsertAt(d, IF adjacent THEN pos ELSE pos + InsertedRun(d, pos), text)

\* Effect of one queued request on the paragraph.
ApplyRequest(d, rq, adjacent) ==
    IF rq.kind = "delete" THEN DeleteRange(d, rq.range)
    ELSE IF rq.kind = "insert" THEN InsertText(d, rq.range, rq.text, adjacent)
    ELSE d

\* Requests of one batch execute in queue order at the sync.
RECURSIVE ApplyQueue(_, _, _)
ApplyQueue(d, q, adjacent) ==
    IF q = <<>> THEN d
    ELSE ApplyQueue(ApplyRequest(d, Head(q), adjacent), Tail(q), adjacent)

RECURSIVE ModeAfter(_, _)
ModeAfter(mode, q) ==
    IF q = <<>> THEN mode
    ELSE ModeAfter(IF Head(q).kind = "mode" THEN Head(q).text ELSE mode, Tail(q))

ModeRequest(m) == [kind |-> "mode", tok |-> -1, range |-> NoRange, text |-> m]

----------------------------------------------------------------------------
\* Token mapper

\* Searches queued for one coarse range: one per regex token of its text; the
\* range of a search is the first match of the token text in the coarse range.
ProxiesOf(coarse) ==
    LET toks == RegexTokens(coarse.text)
    IN  [j \in 1..Len(toks) |->
            LET m == FirstMatch(coarse.text, toks[j])
            IN  [text |-> toks[j],
                 coarseText |-> coarse.text,
                 range |-> [s |-> coarse.s + m - 1,
                            e |-> coarse.s + m + Len(toks[j]) - 2]]]

\* The searches of the coarse ranges queued from the last range to the first.
RECURSIVE SearchProxies_Reversed(_)
SearchProxies_Reversed(coarses) ==
    IF coarses = <<>> THEN <<>>
    ELSE SearchProxies_Reversed(Tail(coarses)) \o ProxiesOf(Head(coarses))

RECURSIVE SearchProxies(_)
SearchProxies(coarses) ==
    IF coarses = <<>> THEN <<>>
    ELSE ProxiesOf(Head(coarses)) \o SearchProxies(Tail(coarses))

BuildTokens(proxies) ==
    [i \in 1..Len(proxies) |->
        [index |-> i - 1, text |-> proxies[i].text, range |-> proxies[i].range]]

\* ParagraphBlock.tokenize: one token per coarse range, and the text of the
\* block as the concatenation of the texts of the ranges.
ParagraphBlockTokens(coarses) ==
    [i \in 1..Len(coarses) |->
        [index |-> i - 1, text |-> coarses[i].text,
         range |-> [s |-> coarses[i].s, e |-> coarses[i].e]]]

ParagraphBlockText(coarses) ==
    Concat([i \in 1..Len(coarses) |-> ParagraphBlockTokens(coarses)[i].text])

----------------------------------------------------------------------------
\* Edit planner

\* fineTokens.filter(t => !deletedIndices.has(t.index))
TokensAfterDeletes(tokens, targets) ==
    LET deletedIndices == {targets[i].index : i \in 1..Len(targets)}
    IN  SelectSeq(tokens, LAMBDA t : t.index \notin deletedIndices)

\* Pass 1 without the bound check of the delete loop: the entries past the
\* end of the token map are collected too.
Pass1Op_NoGuard(op, tokens, targets, idx) ==
    LET count == Len(RegexTokens(op[2]))
    IN  IF op[1] = OP_EQUAL THEN [targets |-> targets, tokenIndex |-> idx + count]
        ELSE IF op[1] = OP_DELETE THEN
            [targets |-> targets \o
                 [i \in 1..count |->
                     IF idx + i <= Len(tokens) THEN tokens[idx + i]
                     ELSE [index |-> idx + i - 1, text |-> <<>>, range |-> NoRange]],
             tokenIndex |-> idx + count]
        ELSE [targets |-> targets, tokenIndex |-> idx]

\* Pass 1 with an Equal op leaving the cursor where it is.
Pass1Op_EqualStays(op, tokens, targets, idx) ==
    LET count == Len(RegexTokens(op[2]))
    IN  IF op[1] = OP_DELETE THEN
            LET stop == IF idx < Len(tokens) THEN Min(idx + count, Len(tokens)) ELSE idx
            IN  [targets |-> targets \o [i \in 1..(stop - idx) |-> tokens[idx + i]],
                 tokenIndex |-> stop]
        ELSE [targets |-> targets, tokenIndex |-> idx]

\* Pass 1, one diff op: the new [targets, tokenIndex].
Pass1Op(op, tokens, targets, idx) ==
    LET count == Len(RegexTokens(op[2]))
    IN  IF op[1] = OP_EQUAL THEN [targets |-> targets, tokenIndex |-> idx + count]
        ELSE IF op[1] = OP_DELETE THEN
            LET stop == IF idx < Len(tokens) THEN Min(idx + count, Len(tokens)) ELSE idx
            IN  [targets |-> targets \o [i \in 1..(stop - idx) |-> tokens[idx + i]],
                 tokenIndex |-> stop]
        ELSE [targets |-> targets, tokenIndex |-> idx]

\* The while loop with the mismatch only logged: the token is passed over.
RECURSIVE ConsumeEqual_Skip(_, _, _, _)
ConsumeEqual_Skip(textToConsume, idx, anchor, remaining) ==
    IF Len(textToConsume) > 0 /\ idx < Len(remaining) THEN
        LET token == remaining[idx + 1]
        IN  IF StartsWith(textToConsume, token.text)
            THEN ConsumeEqual_Skip(SliceFrom(textToConsume, Len(token.text)),
                                   idx + 1, token, remaining)
            ELSE [ok |-> TRUE, idx |-> idx + 1, anchor |-> anchor]
    ELSE [ok |-> TRUE, idx |-> idx, anchor |-> anchor]

\* The while loop taking the anchor from the unfiltered token map at the
\* cursor of the filtered one.
RECURSIVE ConsumeEqual_UnfilteredAnchor(_, _, _, _)
ConsumeEqual_UnfilteredAnchor(textToConsume, idx, anchor, remaining) ==
    IF Len(textToConsume) > 0 /\ idx < Len(remaining) THEN
        LET token == remaining[idx + 1]
        IN  IF StartsWith(textToConsume, token.text)
            THEN ConsumeEqual_UnfilteredAnchor(
                     SliceFrom(textToConsume, Len(token.text)),
                     idx + 1, fineTokens[idx + 1], remaining)
            ELSE [ok |-> FALSE, idx |-> idx, anchor |-> anchor]
    ELSE [ok |-> TRUE, idx |-> idx, anchor |-> anchor]

\* Pass 2, the while loop of one Equal op over the surviving tokens.
RECURSIVE ConsumeEqual(_, _, _, _)
ConsumeEqual(textToConsume, idx, anchor, remaining) ==
    IF Len(textToConsume) > 0 /\ idx < Len(remaining) THEN
        LET token == remaining[idx + 1]
        IN  IF StartsWith(textToConsume, token.text)
            THEN ConsumeEqual(SliceFrom(textToConsume, Len(token.text)),
                              idx + 1, token, remaining)
            ELSE [ok |-> FALSE, idx |-> idx, anchor |-> anchor]
    ELSE [ok |-> TRUE, idx |-> idx, anchor |-> anchor]

\* The insert operation placed before its anchor token.
InsertOpFor_Before(chunk, anchor) ==
    IF anchor # NoToken
    THEN [range |-> anchor.range, location |-> "Before", text |-> chunk,
          tok |-> anchor.index]
    ELSE [range |-> StartRange, location |-> "Before", text |-> chunk,
          tok |-> -1]

\* Pass 2, the insert operation of one Insert op.
InsertOpFor(chunk, anchor) ==
    IF anchor # NoToken
    THEN [range |-> anchor.range, location |-> "After", text |-> chunk,
          tok |-> anchor.index]
    ELSE [range |-> StartRange, location |-> "Before", text |-> chunk,
          tok |-> -1]

\* paragraph.getRange(start): the handle of the start of the paragraph is
\* created by a call queued on the request context.
GetRangeRequest ==
    [kind |-> "getRange", tok |-> -1, range |-> StartRange, text |-> <<>>]

\* Pass 2 queueing the insert itself as soon as it has planned it.
PlanningRequests_InsertNow(op, anchor) ==
    IF op[1] = OP_INSERT
    THEN <<[kind |-> "insert", tok |-> anchor.index, range |-> anchor.range,
            text |-> op[2]]>>
    ELSE <<>>

\* Host calls of one iteration of Pass 2: none, but for an Insert op met
\* before any anchor, whose anchor is obtained with paragraph.getRange.
PlanningRequests(op, anchor) ==
    IF op[1] = OP_INSERT /\ anchor = NoToken THEN <<GetRangeRequest>> ELSE <<>>

----------------------------------------------------------------------------
\* Plan executor

\* The delete targets left in the order Pass 1 collected them.
SortDescending_Unsorted(ts) == ts

\* Array.prototype.sort((a, b) => b.index - a.index)
RECURSIVE SortDescending(_)
SortDescending(ts) ==
    IF ts = <<>> THEN <<>>
    ELSE LET m == CHOOSE i \in 1..Len(ts) :
                      \A j \in 1..Len(ts) :
                          \/ ts[i].index > ts[j].index
                          \/ (ts[i].index = ts[j].index /\ i <= j)
         IN  <<ts[m]>> \o
             SortDescending(SubSeq(ts, 1, m - 1) \o SubSeq(ts, m + 1, Len(ts)))

DeleteRequests(targets) ==
    LET sorted == SortDescending(targets)
    IN  [i \in 1..Len(sorted) |->
            [kind |-> "delete", tok |-> sorted[i].index,
             range |-> sorted[i].range, text |-> <<>>]]

InsertRequests(ops) ==
    [i \in 1..Len(ops) |->
        [kind |-> "insert", tok |-> ops[i].tok, range |-> ops[i].range,
         text |-> ops[i].text]]

\* The requests the execution phase queues before its sync.
ExecutionQueue(targets, ops) ==
    <<ModeRequest("trackAll")>> \o DeleteRequests(targets)
        \o InsertRequests(ops) \o <<ModeRequest("off")>>


----------------------------------------------------------------------------
\* Cursor-based replay

\* Indices of the cells behind the cursor that are still part of the text.
RECURSIVE LiveCellsFrom(_, _)
LiveCellsFrom(d, pos) ==
    IF pos >= Len(d) THEN <<>>
    ELSE (IF d[pos + 1].del THEN <<>> ELSE <<pos + 1>>) \o LiveCellsFrom(d, pos + 1)

\* searchRange.search(chunk, { matchCase: true }).items[0] for the range from
\* the cursor to the end: the cell indices of the first match, <<>> if none.
SearchFrom(d, pos, chunk) ==
    LET live == LiveCellsFrom(d, pos)
        m == FirstMatch([i \in 1..Len(live) |-> d[live[i]].ch], chunk)
    IN  IF m = 0 THEN <<>> ELSE SubSeq(live, m, m + Len(chunk) - 1)

\* match.delete()
DeleteCells(d, cells) ==
    LET hit == {cells[i] : i \in 1..Len(cells)}
    IN  [i \in 1..Len(d) |-> IF i \in hit THEN [d[i] EXCEPT !.del = TRUE] ELSE d[i]]

----------------------------------------------------------------------------
\* Loads, syncs and reads, in the order the code issues them

LoadOf(v) == [op |-> "load", val |-> v]
ReadOf(v) == [op |-> "read", val |-> v]
SyncCall == [op |-> "sync", val |-> "none"]

\* State of the request context after the calls of a script: a load makes
\* its value pending, a sync carries out the pending loads, a read of a value
\* that is not loaded is recorded.
RECURSIVE RunScript(_, _)
RunScript(script, st) ==
    IF script = <<>> THEN st
    ELSE LET c == Head(script)
         IN  RunScript(Tail(script),
                 IF c.op = "load" THEN [st EXCEPT !.pending = @ \cup {c.val}]
                 ELSE IF c.op = "sync"
                 THEN [st EXCEPT !.loaded = @ \cup st.pending, !.pending = {}]
                 ELSE [st EXCEPT !.bad = @ \/ c.val \notin st.loaded])

HostCalls(script) ==
    LET r == RunScript(script, [pending |-> pending, loaded |-> loaded,
                                bad |-> unsyncedRead])
    IN  /\ pending' = r.pending
        /\ loaded' = r.loaded
        /\ unsyncedRead' = r.bad

\* coarseRanges.load("items/text"); SYNC 2
LoadCoarseRangesScript ==
    <<LoadOf("coarseRanges.items"), LoadOf("coarseRanges.text"), SyncCall>>

\* The searches are processed without SYNC 3.
BuildTokenMapScript_NoSync ==
    <<ReadOf("coarseRanges.items"), ReadOf("coarseRanges.text"),
      LoadOf("searchResults.items"), ReadOf("searchResults.items")>>

\* Loop over coarseRanges.items reading coarseRange.text, one search with
\* load("items") per token; SYNC 3; loop reading proxy.results.items.
BuildTokenMapScript ==
    <<ReadOf("coarseRanges.items"), ReadOf("coarseRanges.text"),
      LoadOf("searchResults.items"), SyncCall, ReadOf("searchResults.items")>>

\* One op of the replay.
ReplayScript(op) ==
    IF op[1] = OP_EQUAL
    THEN <<LoadOf("replayResults.items"), SyncCall, ReadOf("replayResults.items")>>
    ELSE IF op[1] = OP_DELETE
    THEN <<LoadOf("replayResults.items"), SyncCall, ReadOf("replayResults.items"),
           SyncCall>>
    ELSE <<SyncCall>>

\* A search of the replay that comes back empty.
ReplaySearchScript ==
    <<LoadOf("replayResults.items"), SyncCall, ReadOf("replayResults.items")>>

\* ParagraphBlock.tokenize
TokenizeScript ==
    <<LoadOf("tokenRanges.items"), SyncCall, ReadOf("tokenRanges.items"),
      LoadOf("range.text"), SyncCall, ReadOf("tokenRanges.items"),
      ReadOf("range.text")>>

\* handleReviewSelection, step 1
GetSelectionScript ==
    <<LoadOf("selection.text"), SyncCall, ReadOf("selection.text")>>

----------------------------------------------------------------------------
\* Taskpane state when no review has been asked for (let isProcessing = false,
\* the default configuration).

NoCalls == <<>>

TaskpaneIdle ==
    /\ isProcessing = FALSE
    /\ btnDisabled = FALSE
    /\ config = [trackChangesEnabled |-> TRUE, lineDiffEnabled |-> FALSE]
    /\ promptText = <<>>
    /\ calls = NoCalls

\* The verification scripts for tracked deletion and block deletion have not
\* run.
NoTarget == [startOffset |-> 0, length |-> 0, text |-> <<>>, range |-> NoRange]

ApiTestsIdle ==
    /\ target = NoTarget
    /\ body = <<>>
    /\ loadedText = <<>>

\* Nothing saved in localStorage, no environment override.
NoConfig == [saved |-> FALSE]

NoEnv == [DEFAULT_OLLAMA_URL |-> "", DEFAULT_MODEL |-> ""]

SettingsIdle ==
    /\ storage = <<>>
    /\ env = NoEnv
    /\ savedConfig = NoConfig

\* let prompts = []; loadPrompts not started.
PromptsIdle ==
    /\ prompts = <<>>
    /\ promptStore = [saved |-> FALSE, list |-> <<>>]
    /\ loadPc = "idle"
    /\ options = <<>>
    /\ savedIds = {}

\* No request received by the static server.
ServerIdle ==
    /\ reqPath = <<>>
    /\ served = [kind |-> "none", file |-> <<>>]

\* canProceed: false, waitingForTrigger: true
LoopPaused ==
    /\ control = [canProceed |-> FALSE, waitingForTrigger |-> TRUE]
    /\ lastStatus = [canProceed |-> FALSE, waitingForTrigger |-> TRUE]
    /\ requests = <<>>

\* user-prompts.json does not exist.
NoResponse ==
    [kind |-> "none", status |-> 0, body |-> <<>>, defaults |-> <<>>,
     before |-> <<>>]

ApiIdle ==
    /\ userPrompts = <<>>
    /\ apiResponse = NoResponse

AuxIdle ==
    /\ SettingsIdle
    /\ PromptsIdle
    /\ ServerIdle
    /\ LoopPaused
    /\ ApiIdle

----------------------------------------------------------------------------
\* State machine

Init ==
    /\ diffs \in DiffSeqs
    /\ text1 = OriginalOf(diffs)
    /\ text2 = RevisedOf(diffs)
    /\ doc = FillDoc(text1)
    /\ trackMode = "off"
    /\ pc = "coarse"
    /\ coarseRanges = <<>>
    /\ fineTokens = <<>>
    /\ deleteTargets = <<>>
    /\ tokenIndex = 0
    /\ di = 1
    /\ currentTokenIdx = 0
    /\ lastAnchor = NoToken
    /\ insertOps = <<>>
    /\ queue = <<>>
    /\ exc = "none"
    /\ unresolved = <<>>
    /\ thrown = "none"
    /\ cursor = 0
    /\ execCount = 0
    /\ resetCount = 0
    /\ secCount = 0
    /\ pending = {}
    /\ loaded = {}
    /\ unsyncedRead = FALSE
    /\ TaskpaneIdle
    /\ AuxIdle
    /\ ApiTestsIdle

\* The locals of the try block go out of scope when it is left.
\* The token map and the plan of the failed attempt kept for the fallback.
DropLocals_Keep ==
    /\ di' = 1
    /\ UNCHANGED <<coarseRanges, fineTokens, deleteTargets, tokenIndex,
                   currentTokenIdx, lastAnchor, insertOps>>

\* The block-scoped constants of the try block (coarseRanges, fineTokens,
\* deleteTargets, insertOps, lastAnchorRange) are out of scope in the catch
\* clause.
DropLocals ==
    /\ coarseRanges' = <<>>
    /\ fineTokens' = <<>>
    /\ deleteTargets' = <<>>
    /\ tokenIndex' = 0
    /\ di' = 1
    /\ currentTokenIdx' = 0
    /\ lastAnchor' = NoToken
    /\ insertOps' = <<>>

\* An exception raised outside the try block: it leaves the function.
Throw_Uncaught(kind) ==
    /\ pc' = "failed"
    /\ exc' = "none"
    /\ thrown' = kind
    /\ DropLocals

\* An exception raised inside the try block lands in its catch clause and
\* does not leave the function.
Throw(kind) ==
    /\ pc' = "catch"
    /\ exc' = kind
    /\ thrown' = thrown
    /\ DropLocals

\* SYNC 2: load the coarse ranges.
LoadCoarseRanges ==
    /\ pc = "coarse"
    /\ coarseRanges' = CoarseSplit(VisibleText(doc), 0)
    /\ pc' = "search"
    /\ UNCHANGED <<diffs, text1, text2, doc, trackMode, fineTokens, deleteTargets,
                   tokenIndex, di, currentTokenIdx, lastAnchor, insertOps, queue,
                   exc, unresolved, thrown, cursor, execCount, resetCount, secCount>>
    /\ HostCalls(LoadCoarseRangesScript)
    /\ UNCHANGED reviewVars
    /\ UNCHANGED apiTestVars
    /\ UNCHANGED auxVars

\* The token map built from the searches that found something: a token whose
\* search came back empty is left out and the planner goes on with the rest.
BuildTokenMap_Partial ==
    /\ pc = "search"
    /\ LET proxies == SearchProxies(coarseRanges)
       IN  \E failed \in 0..Len(proxies) :
              fineTokens' = BuildTokens(SelectSeq(proxies,
                                LAMBDA x : failed = 0 \/ x # proxies[failed]))
    /\ pc' = "pass1"
    /\ UNCHANGED <<diffs, text1, text2, doc, trackMode, coarseRanges,
                   deleteTargets, tokenIndex, di, currentTokenIdx, lastAnchor,
                   insertOps, queue, exc, unresolved, thrown, cursor,
                   execCount, resetCount, secCount>>
    /\ HostCalls(BuildTokenMapScript)
    /\ UNCHANGED reviewVars
    /\ UNCHANGED apiTestVars
    /\ UNCHANGED auxVars

\* Queue one search per fine token, SYNC 3, process the results.  The host
\* search may come back empty for a token (failed = its position).
BuildTokenMap ==
    /\ pc = "search"
    /\ LET proxies == SearchProxies(coarseRanges)
       IN  \E failed \in 0..Len(proxies) :
              IF failed = 0
              THEN /\ fineTokens' = BuildTokens(proxies)
                   /\ pc' = "pass1"
                   /\ UNCHANGED <<coarseRanges, deleteTargets, tokenIndex, di,
                                  currentTokenIdx, lastAnchor, insertOps, exc,
                                  unresolved, thrown>>
              ELSE /\ Throw("TokenResolutionError")
                   /\ unresolved' = proxies[failed].text
    /\ UNCHANGED <<diffs, text1, text2, doc, trackMode, queue, cursor,
                   execCount, resetCount, secCount>>
    /\ HostCalls(BuildTokenMapScript)
    /\ UNCHANGED reviewVars
    /\ UNCHANGED apiTestVars
    /\ UNCHANGED auxVars

\* Pass 1 deleting the ranges of its targets as soon as it collects them.
Pass1Step_Eager ==
    /\ pc = "pass1"
    /\ LET r == Pass1Op(diffs[di], fineTokens, deleteTargets, tokenIndex)
       IN  /\ deleteTargets' = r.targets
           /\ tokenIndex' = r.tokenIndex
           /\ doc' = ApplyQueue(doc, DeleteRequests(SubSeq(r.targets,
                         Len(deleteTargets) + 1, Len(r.targets))), TRUE)
    /\ IF di < Len(diffs)
       THEN /\ di' = di + 1
            /\ pc' = "pass1"
       ELSE /\ di' = 1
            /\ pc' = "pass2"
    /\ UNCHANGED <<diffs, text1, text2, trackMode, coarseRanges, fineTokens,
                   currentTokenIdx, lastAnchor, insertOps, queue, exc, unresolved,
                   thrown, cursor, execCount, resetCount, secCount>>
    /\ HostCalls(<<>>)
    /\ UNCHANGED reviewVars
    /\ UNCHANGED apiTestVars
    /\ UNCHANGED auxVars

\* Pass 1: one iteration of the loop over the diffs.
Pass1Step ==
    /\ pc = "pass1"
    /\ LET r == Pass1Op(diffs[di], fineTokens, deleteTargets, tokenIndex)
       IN  /\ deleteTargets' = r.targets
           /\ tokenIndex' = r.tokenIndex
    /\ IF di < Len(diffs)
       THEN /\ di' = di + 1
            /\ pc' = "pass1"
       ELSE /\ di' = 1
            /\ pc' = "pass2"
    /\ UNCHANGED <<diffs, text1, text2, doc, trackMode, coarseRanges, fineTokens,
                   currentTokenIdx, lastAnchor, insertOps, queue, exc, unresolved,
                   thrown, cursor, execCount, resetCount, secCount>>
    /\ HostCalls(<<>>)
    /\ UNCHANGED reviewVars
    /\ UNCHANGED apiTestVars
    /\ UNCHANGED auxVars

Pass2Advance ==
    IF di < Len(diffs)
    THEN /\ di' = di + 1
         /\ pc' = "pass2"
    ELSE /\ di' = 1
         /\ pc' = "execute"

\* Pass 2: one iteration of the loop over the diffs.
Pass2Step ==
    /\ pc = "pass2"
    /\ LET op == diffs[di]
           remaining == TokensAfterDeletes(fineTokens, deleteTargets)
           r == ConsumeEqual(op[2], currentTokenIdx, lastAnchor, remaining)
       IN  IF op[1] = OP_EQUAL /\ ~r.ok
           THEN /\ Throw("AlignmentError")
                /\ UNCHANGED <<unresolved, queue>>
           ELSE /\ currentTokenIdx' = IF op[1] = OP_EQUAL THEN r.idx ELSE currentTokenIdx
                /\ lastAnchor' = IF op[1] = OP_EQUAL THEN r.anchor ELSE lastAnchor
                /\ insertOps' = IF op[1] = OP_INSERT
                                THEN Append(insertOps, InsertOpFor(op[2], lastAnchor))
                                ELSE insertOps
                /\ queue' = queue \o PlanningRequests(op, lastAnchor)
                /\ Pass2Advance
                /\ UNCHANGED <<coarseRanges, fineTokens, deleteTargets, tokenIndex,
                               exc, unresolved, thrown>>
    /\ UNCHANGED <<diffs, text1, text2, doc, trackMode, cursor,
                   execCount, resetCount, secCount>>
    /\ HostCalls(<<>>)
    /\ UNCHANGED reviewVars
    /\ UNCHANGED apiTestVars
    /\ UNCHANGED auxVars

\* The execution phase with a sync of its own after the deletes: the mode
\* toggle and the deletes are committed, the inserts are left for the last sync.
QueueExecution_SyncDeletes ==
    /\ pc = "execute"
    /\ doc' = ApplyQueue(doc, DeleteRequests(deleteTargets), TRUE)
    /\ trackMode' = "trackAll"
    /\ queue' = InsertRequests(insertOps) \o <<ModeRequest("off")>>
    /\ execCount' = execCount + 1
    /\ pc' = "commit"
    /\ UNCHANGED <<diffs, text1, text2, coarseRanges, fineTokens,
                   deleteTargets, tokenIndex, di, currentTokenIdx, lastAnchor,
                   insertOps, exc, unresolved, thrown, cursor, resetCount, secCount>>
    /\ HostCalls(<<SyncCall>>)
    /\ UNCHANGED reviewVars
    /\ UNCHANGED apiTestVars
    /\ UNCHANGED auxVars

\* Execution phase: queue the mode toggles, the deletes and the inserts.
QueueExecution ==
    /\ pc = "execute"
    /\ queue' = queue \o ExecutionQueue(deleteTargets, insertOps)
    /\ execCount' = execCount + 1
    /\ pc' = "commit"
    /\ UNCHANGED <<diffs, text1, text2, doc, trackMode, coarseRanges, fineTokens,
                   deleteTargets, tokenIndex, di, currentTokenIdx, lastAnchor,
                   insertOps, exc, unresolved, thrown, cursor, resetCount, secCount>>
    /\ HostCalls(<<>>)
    /\ UNCHANGED reviewVars
    /\ UNCHANGED apiTestVars
    /\ UNCHANGED auxVars

\* SYNC 4 succeeds: the whole batch takes effect.
CommitOk ==
    /\ pc = "commit"
    /\ \E adjacent \in BOOLEAN : doc' = ApplyQueue(doc, queue, adjacent)
    /\ trackMode' = ModeAfter(trackMode, queue)
    /\ queue' = <<>>
    /\ pc' = "done"
    /\ DropLocals
    /\ UNCHANGED <<diffs, text1, text2, exc, unresolved, thrown, cursor,
                   execCount, resetCount, secCount>>
    /\ HostCalls(<<SyncCall>>)
    /\ UNCHANGED reviewVars
    /\ UNCHANGED apiTestVars
    /\ UNCHANGED auxVars

\* SYNC 4 is rejected by the host at one of the queued requests: the requests
\* before it have taken effect, the others are dropped.
CommitRejected ==
    /\ pc = "commit"
    /\ \E n \in 0..(Len(queue) - 1), adjacent \in BOOLEAN :
          /\ doc' = ApplyQueue(doc, SubSeq(queue, 1, n), adjacent)
          /\ trackMode' = ModeAfter(trackMode, SubSeq(queue, 1, n))
    /\ queue' = <<>>
    /\ Throw("ExecutionError")
    /\ UNCHANGED <<diffs, text1, text2, unresolved, cursor, execCount,
                   resetCount, secCount>>
    /\ HostCalls(<<SyncCall>>)
    /\ UNCHANGED reviewVars
    /\ UNCHANGED apiTestVars
    /\ UNCHANGED auxVars

\* The reset without paragraph.clear(): the original text is put in front of
\* whatever the failed attempt left.
ResetOk_NoClear ==
    /\ pc = "catch"
    /\ doc' = InsertAt(doc, 0, text1)
    /\ queue' = <<>>
    /\ resetCount' = resetCount + 1
    /\ unresolved' = <<>>
    /\ pc' = "secondary"
    /\ UNCHANGED <<diffs, text1, text2, trackMode, coarseRanges, fineTokens,
                   deleteTargets, tokenIndex, di, currentTokenIdx, lastAnchor,
                   insertOps, exc, thrown, cursor, execCount, secCount>>
    /\ HostCalls(<<SyncCall>>)
    /\ UNCHANGED reviewVars
    /\ UNCHANGED apiTestVars
    /\ UNCHANGED auxVars

\* catch: log the message of the error, then paragraph.clear();
\* paragraph.insertText(text1, start); sync.
ResetOk ==
    /\ pc = "catch"
    /\ doc' = FillDoc(text1)
    /\ queue' = <<>>
    /\ resetCount' = resetCount + 1
    /\ unresolved' = <<>>
    /\ pc' = "secondary"
    /\ UNCHANGED <<diffs, text1, text2, trackMode, coarseRanges, fineTokens,
                   deleteTargets, tokenIndex, di, currentTokenIdx, lastAnchor,
                   insertOps, exc, thrown, cursor, execCount, secCount>>
    /\ HostCalls(<<SyncCall>>)
    /\ UNCHANGED reviewVars
    /\ UNCHANGED apiTestVars
    /\ UNCHANGED auxVars

\* The sync of the reset is rejected, before or after the clear took effect;
\* the rejection leaves the catch clause.
ResetRejected ==
    /\ pc = "catch"
    /\ \E cleared \in BOOLEAN : doc' = IF cleared THEN <<>> ELSE doc
    /\ queue' = <<>>
    /\ thrown' = "HostRejection"
    /\ pc' = "failed"
    /\ UNCHANGED <<diffs, text1, text2, trackMode, coarseRanges, fineTokens,
                   deleteTargets, tokenIndex, di, currentTokenIdx, lastAnchor,
                   insertOps, exc, unresolved, cursor, execCount,
                   resetCount, secCount>>
    /\ HostCalls(<<SyncCall>>)
    /\ UNCHANGED reviewVars
    /\ UNCHANGED apiTestVars
    /\ UNCHANGED auxVars

\* Secondary strategy: switch tracking on, put the cursor at the start.
StartReplay ==
    /\ pc = "secondary"
    /\ trackMode' = "trackAll"
    /\ cursor' = 0
    /\ di' = 1
    /\ secCount' = secCount + 1
    /\ pc' = "replay"
    /\ UNCHANGED <<diffs, text1, text2, doc, coarseRanges, fineTokens,
                   deleteTargets, tokenIndex, currentTokenIdx, lastAnchor,
                   insertOps, queue, exc, unresolved, thrown, execCount,
                   resetCount>>
    /\ HostCalls(<<SyncCall>>)
    /\ UNCHANGED reviewVars
    /\ UNCHANGED apiTestVars
    /\ UNCHANGED auxVars

ReplayAdvance ==
    IF di < Len(diffs)
    THEN /\ di' = di + 1
         /\ pc' = "replay"
    ELSE /\ di' = 1
         /\ pc' = "finish"

\* The replay searching every chunk in the whole paragraph, not behind the
\* cursor.
ReplayStep_FromStart ==
    /\ pc = "replay"
    /\ LET op == diffs[di]
           match == SearchFrom(doc, 0, op[2])
       IN  \/ /\ op[1] = OP_EQUAL
              /\ match # <<>>
              /\ cursor' = match[Len(match)]
              /\ doc' = doc
           \/ /\ op[1] = OP_DELETE
              /\ match # <<>>
              /\ doc' = DeleteCells(doc, match)
              /\ cursor' = cursor
           \/ /\ op[1] = OP_INSERT
              /\ doc' = InsertAt(doc, cursor, op[2])
              /\ cursor' = cursor + Len(op[2])
    /\ ReplayAdvance
    /\ UNCHANGED <<diffs, text1, text2, trackMode, coarseRanges, fineTokens,
                   deleteTargets, tokenIndex, currentTokenIdx, lastAnchor,
                   insertOps, queue, exc, unresolved, thrown, execCount,
                   resetCount, secCount>>
    /\ HostCalls(ReplayScript(diffs[di]))
    /\ UNCHANGED reviewVars
    /\ UNCHANGED apiTestVars
    /\ UNCHANGED auxVars

\* Replay of one diff op whose chunk is found (Equal, Delete) or inserted.
ReplayStep ==
    /\ pc = "replay"
    /\ LET op == diffs[di]
           match == SearchFrom(doc, cursor, op[2])
       IN  \/ /\ op[1] = OP_EQUAL
              /\ match # <<>>
              /\ cursor' = match[Len(match)]
              /\ doc' = doc
           \/ /\ op[1] = OP_DELETE
              /\ match # <<>>
              /\ doc' = DeleteCells(doc, match)
              /\ cursor' = cursor
           \/ /\ op[1] = OP_INSERT
              /\ doc' = InsertAt(doc, cursor, op[2])
              /\ cursor' = cursor + Len(op[2])
    /\ ReplayAdvance
    /\ UNCHANGED <<diffs, text1, text2, trackMode, coarseRanges, fineTokens,
                   deleteTargets, tokenIndex, currentTokenIdx, lastAnchor,
                   insertOps, queue, exc, unresolved, thrown, execCount,
                   resetCount, secCount>>
    /\ HostCalls(ReplayScript(diffs[di]))
    /\ UNCHANGED reviewVars
    /\ UNCHANGED apiTestVars
    /\ UNCHANGED auxVars

\* A chunk that is not found sends the request through the fallback again.
ReplayChunkNotFound_Retry ==
    /\ pc = "replay"
    /\ diffs[di][1] \in {OP_EQUAL, OP_DELETE}
    /\ pc' = "catch"
    /\ UNCHANGED <<diffs, text1, text2, doc, trackMode, coarseRanges, fineTokens,
                   deleteTargets, tokenIndex, di, currentTokenIdx, lastAnchor,
                   insertOps, queue, exc, unresolved, thrown, cursor, execCount,
                   resetCount, secCount>>
    /\ HostCalls(ReplaySearchScript)
    /\ UNCHANGED reviewVars
    /\ UNCHANGED apiTestVars
    /\ UNCHANGED auxVars

\* A chunk that is not found makes the replay put the original text back
\* before it throws.
ReplayChunkNotFound_Rollback ==
    /\ pc = "replay"
    /\ diffs[di][1] \in {OP_EQUAL, OP_DELETE}
    /\ doc' = FillDoc(text1)
    /\ thrown' = "ChunkNotFound"
    /\ pc' = "failed"
    /\ UNCHANGED <<diffs, text1, text2, trackMode, coarseRanges, fineTokens,
                   deleteTargets, tokenIndex, di, currentTokenIdx, lastAnchor,
                   insertOps, queue, exc, unresolved, cursor, execCount,
                   resetCount, secCount>>
    /\ HostCalls(ReplaySearchScript)
    /\ UNCHANGED reviewVars
    /\ UNCHANGED apiTestVars
    /\ UNCHANGED auxVars

\* The search for an Equal or Delete chunk comes back empty (the chunk is not
\* there, or the host search does not find it): the replay throws.
ReplayChunkNotFound ==
    /\ pc = "replay"
    /\ diffs[di][1] \in {OP_EQUAL, OP_DELETE}
    /\ thrown' = "ChunkNotFound"
    /\ pc' = "failed"
    /\ UNCHANGED <<diffs, text1, text2, doc, trackMode, coarseRanges, fineTokens,
                   deleteTargets, tokenIndex, di, currentTokenIdx, lastAnchor,
                   insertOps, queue, exc, unresolved, cursor, execCount,
                   resetCount, secCount>>
    /\ HostCalls(ReplaySearchScript)
    /\ UNCHANGED reviewVars
    /\ UNCHANGED apiTestVars
    /\ UNCHANGED auxVars

\* The sync of a delete or of an insert of the replay is rejected by the host.
ReplayRejected ==
    /\ pc = "replay"
    /\ diffs[di][1] \in {OP_DELETE, OP_INSERT}
    /\ thrown' = "HostRejection"
    /\ pc' = "failed"
    /\ UNCHANGED <<diffs, text1, text2, doc, trackMode, coarseRanges, fineTokens,
                   deleteTargets, tokenIndex, di, currentTokenIdx, lastAnchor,
                   insertOps, queue, exc, unresolved, cursor, execCount,
                   resetCount, secCount>>
    /\ HostCalls(ReplayScript(diffs[di]))
    /\ UNCHANGED reviewVars
    /\ UNCHANGED apiTestVars
    /\ UNCHANGED auxVars

\* End of the replay: final sync, tracking off.
FinishReplay ==
    /\ pc = "finish"
    /\ trackMode' = "off"
    /\ pc' = "done"
    /\ UNCHANGED <<diffs, text1, text2, doc, coarseRanges, fineTokens,
                   deleteTargets, tokenIndex, di, currentTokenIdx, lastAnchor,
                   insertOps, queue, exc, unresolved, thrown, cursor, execCount,
                   resetCount, secCount>>
    /\ HostCalls(<<SyncCall, SyncCall>>)
    /\ UNCHANGED reviewVars
    /\ UNCHANGED apiTestVars
    /\ UNCHANGED auxVars

Next ==
    \/ LoadCoarseRanges
    \/ BuildTokenMap
    \/ Pass1Step
    \/ Pass2Step
    \/ QueueExecution
    \/ CommitOk
    \/ CommitRejected
    \/ ResetOk
    \/ ResetRejected
    \/ StartReplay
    \/ ReplayStep
    \/ ReplayChunkNotFound
    \/ ReplayRejected
    \/ FinishReplay

Spec == Init /\ [][Next]_vars

----------------------------------------------------------------------------
\* The primary strategy as a function of the diff: the texts the range can
\* read after a run on the original text in which every search finds its
\* token and the commit goes through; empty when Pass 2 raises its error.

RECURSIVE Pass1All(_, _, _, _)
Pass1All(ds, tokens, targets, idx) ==
    IF ds = <<>> THEN targets
    ELSE LET r == Pass1Op(Head(ds), tokens, targets, idx)
         IN  Pass1All(Tail(ds), tokens, r.targets, r.tokenIndex)

RECURSIVE Pass2All(_, _, _, _, _)
Pass2All(ds, idx, anchor, remaining, ops) ==
    IF ds = <<>> THEN [ok |-> TRUE, ops |-> ops]
    ELSE LET op == Head(ds)
             r == ConsumeEqual(op[2], idx, anchor, remaining)
         IN  IF op[1] = OP_EQUAL
             THEN IF r.ok THEN Pass2All(Tail(ds), r.idx, r.anchor, remaining, ops)
                  ELSE [ok |-> FALSE, ops |-> <<>>]
             ELSE IF op[1] = OP_INSERT
             THEN Pass2All(Tail(ds), idx, anchor, remaining,
                           Append(ops, InsertOpFor(op[2], anchor)))
             ELSE Pass2All(Tail(ds), idx, anchor, remaining, ops)

PrimaryTexts(ds) ==
    LET original == OriginalOf(ds)
        tokens == BuildTokens(SearchProxies(CoarseSplit(original, 0)))
        targets == Pass1All(ds, tokens, <<>>, 0)
        plan == Pass2All(ds, 0, NoToken, TokensAfterDeletes(tokens, targets), <<>>)
    IN  IF plan.ok
        THEN {VisibleText(ApplyQueue(FillDoc(original),
                                     ExecutionQueue(targets, plan.ops), adjacent)) :
                  adjacent \in BOOLEAN}
        ELSE {}

----------------------------------------------------------------------------
\* The strategy with one token of the map carrying a text that is not the
\* text of its range (the text the host reports for it differs from the text
\* in the document).

CorruptText == <<"#">>

CorruptToken ==
    /\ pc = "pass1"
    /\ di = 1
    /\ fineTokens = BuildTokens(SearchProxies(coarseRanges))
    /\ \E i \in 1..Len(fineTokens) :
          fineTokens' = [fineTokens EXCEPT ![i].text = CorruptText]
    /\ UNCHANGED <<pc, diffs, text1, text2, doc, trackMode, coarseRanges,
                   deleteTargets, tokenIndex, di, currentTokenIdx, lastAnchor,
                   insertOps, queue, exc, unresolved, thrown, cursor,
                   execCount, resetCount, secCount>>
    /\ HostCalls(<<>>)
    /\ UNCHANGED reviewVars
    /\ UNCHANGED apiTestVars
    /\ UNCHANGED auxVars

CorruptNext ==
    \/ Next
    \/ CorruptToken

CorruptSpec == Init /\ [][CorruptNext]_vars

----------------------------------------------------------------------------
\* The procedures that read values from the host: the token-map strategy,
\* ParagraphBlock.tokenize and the first step of handleReviewSelection.

\* ParagraphBlock.tokenize(context)
Tokenize ==
    /\ pc = "tokenize"
    /\ coarseRanges' = CoarseSplit(VisibleText(doc), 0)
    /\ fineTokens' = ParagraphBlockTokens(coarseRanges')
    /\ pc' = "tokenized"
    /\ UNCHANGED <<diffs, text1, text2, doc, trackMode, deleteTargets,
                   tokenIndex, di, currentTokenIdx, lastAnchor, insertOps,
                   queue, exc, unresolved, thrown, cursor, execCount,
                   resetCount, secCount>>
    /\ HostCalls(TokenizeScript)
    /\ UNCHANGED reviewVars
    /\ UNCHANGED apiTestVars
    /\ UNCHANGED auxVars

\* !selection.text || !selection.text.trim()
IsBlank(text) == \A i \in 1..Len(text) : text[i] \in SpaceChars \cup TabChars

\* handleReviewSelection, step 1: read the text of the selection; a blank
\* selection ends the request with a message in the log.
GetSelection ==
    /\ pc = "selection"
    /\ IF IsBlank(VisibleText(doc))
       THEN /\ exc' = "NoSelection"
            /\ pc' = "failed"
       ELSE /\ exc' = exc
            /\ pc' = "selected"
    /\ UNCHANGED <<diffs, text1, text2, doc, trackMode, coarseRanges,
                   fineTokens, deleteTargets, tokenIndex, di, currentTokenIdx,
                   lastAnchor, insertOps, queue, unresolved, thrown, cursor,
                   execCount, resetCount, secCount>>
    /\ HostCalls(GetSelectionScript)
    /\ UNCHANGED reviewVars
    /\ UNCHANGED apiTestVars
    /\ UNCHANGED auxVars

SyncInit ==
    /\ diffs \in DiffSeqs
    /\ text1 = OriginalOf(diffs)
    /\ text2 = RevisedOf(diffs)
    /\ doc = FillDoc(text1)
    /\ trackMode = "off"
    /\ pc \in {"coarse", "tokenize", "selection"}
    /\ coarseRanges = <<>>
    /\ fineTokens = <<>>
    /\ deleteTargets = <<>>
    /\ tokenIndex = 0
    /\ di = 1
    /\ currentTokenIdx = 0
    /\ lastAnchor = NoToken
    /\ insertOps = <<>>
    /\ queue = <<>>
    /\ exc = "none"
    /\ unresolved = <<>>
    /\ thrown = "none"
    /\ cursor = 0
    /\ execCount = 0
    /\ resetCount = 0
    /\ secCount = 0
    /\ pending = {}
    /\ loaded = {}
    /\ unsyncedRead = FALSE
    /\ TaskpaneIdle
    /\ AuxIdle
    /\ ApiTestsIdle

SyncNext ==
    \/ Next
    \/ Tokenize
    \/ GetSelection

SyncSpec == SyncInit /\ [][SyncNext]_vars

----------------------------------------------------------------------------
\* The token mapper alone, on any text of the range, tabs included; the diff is
\* the one of a text with itself.

MaxTextLen == 3

MapperTexts == UNION {[1..k -> Alphabet \cup TabChars] : k \in 1..MaxTextLen}

MapperInit ==
    /\ text1 \in MapperTexts
    /\ text2 = text1
    /\ diffs = <<<<OP_EQUAL, text1>>>>
    /\ doc = FillDoc(text1)
    /\ trackMode = "off"
    /\ pc = "coarse"
    /\ coarseRanges = <<>>
    /\ fineTokens = <<>>
    /\ deleteTargets = <<>>
    /\ tokenIndex = 0
    /\ di = 1
    /\ currentTokenIdx = 0
    /\ lastAnchor = NoToken
    /\ insertOps = <<>>
    /\ queue = <<>>
    /\ exc = "none"
    /\ unresolved = <<>>
    /\ thrown = "none"
    /\ cursor = 0
    /\ execCount = 0
    /\ resetCount = 0
    /\ secCount = 0
    /\ pending = {}
    /\ loaded = {}
    /\ unsyncedRead = FALSE
    /\ TaskpaneIdle
    /\ AuxIdle
    /\ ApiTestsIdle

MapperNext ==
    \/ LoadCoarseRanges
    \/ BuildTokenMap

MapperSpec == MapperInit /\ [][MapperNext]_vars


----------------------------------------------------------------------------
\* Taskpane: handleReviewSelection and sendPromptToLLM.  The diff strategies
\* it calls are applied to the selection as one step.

MaxReviewLen == 1

ReviewChars == {"a", " "}

ReviewTexts == UNION {[1..k -> ReviewChars] : k \in 0..MaxReviewLen}

\* Two invocations: one review, and one asked for meanwhile or afterwards.
CallIds == {1, 2}

\* The ways sendPromptToLLM rejects: a status outside 200..299, onerror,
\* ontimeout, and a body JSON.parse does not accept.
LlmFailures == {"HTTP status", "Network error", "Request timeout", "Parse error"}

NewCall ==
    [pc |-> "idle", selectionText |-> <<>>, response |-> <<>>, xhrSent |-> 0,
     modeSets |-> 0, strategy |-> "none", mutated |-> FALSE,
     untracked |-> FALSE, log |-> "none", error |-> "none", disturbed |-> FALSE]

\* The variables of the strategies, which the taskpane leaves alone.
strategyLocals ==
    <<pc, diffs, text1, text2, coarseRanges, fineTokens, deleteTargets,
      tokenIndex, di, currentTokenIdx, lastAnchor, insertOps, queue, exc,
      unresolved, thrown, cursor, execCount, resetCount, secCount>>

\* A handler without the finally block.
Finally_Missing == UNCHANGED <<isProcessing, btnDisabled>>

\* finally { isProcessing = false; btn.disabled = false }
Finally ==
    /\ isProcessing' = FALSE
    /\ btnDisabled' = FALSE

\* catch (error) { addLog(`Error: ${error.message}`) } finally { ... }; the
\* locals selectionText and response end with the call.
Fail(i, message) ==
    /\ calls' = [calls EXCEPT ![i].pc = "returned", ![i].log = "error",
                              ![i].error = message,
                              ![i].selectionText = <<>>, ![i].response = <<>>]
    /\ Finally

\* The handler without its isProcessing guard.
Invoke_Unguarded(i) ==
    /\ calls[i].pc = "idle"
    /\ IF promptText = <<>>
       THEN /\ calls' = [calls EXCEPT ![i].pc = "returned", ![i].log = "warning",
                                     ![i].error = "Please enter a prompt"]
            /\ UNCHANGED <<isProcessing, btnDisabled>>
       ELSE /\ calls' = [calls EXCEPT ![i].pc = "selection"]
            /\ isProcessing' = TRUE
            /\ btnDisabled' = TRUE
    /\ UNCHANGED <<doc, trackMode, config, promptText, strategyLocals>>
    /\ HostCalls(<<>>)
    /\ UNCHANGED apiTestVars
    /\ UNCHANGED auxVars

\* The guards of handleReviewSelection and the start of its try block.
Invoke(i) ==
    /\ calls[i].pc = "idle"
    /\ IF isProcessing
       THEN /\ calls' = [calls EXCEPT ![i].pc = "returned", ![i].log = "warning",
                                     ![i].error = "Already processing a request"]
            /\ UNCHANGED <<isProcessing, btnDisabled>>
       ELSE IF promptText = <<>>
       THEN /\ calls' = [calls EXCEPT ![i].pc = "returned", ![i].log = "warning",
                                     ![i].error = "Please enter a prompt"]
            /\ UNCHANGED <<isProcessing, btnDisabled>>
       ELSE /\ calls' = [calls EXCEPT ![i].pc = "selection"]
            /\ isProcessing' = TRUE
            /\ btnDisabled' = TRUE
    /\ UNCHANGED <<doc, trackMode, config, promptText, strategyLocals>>
    /\ HostCalls(<<>>)
    /\ UNCHANGED apiTestVars
    /\ UNCHANGED auxVars

\* 1. Get Selection, then 2. Call LLM: sendPromptToLLM sends one POST.
ReadSelection(i) ==
    /\ calls[i].pc = "selection"
    /\ IF IsBlank(VisibleText(doc))
       THEN Fail(i, "Please select some text first.")
       ELSE /\ calls' = [calls EXCEPT ![i].pc = "await",
                                     ![i].selectionText = VisibleText(doc),
                                     ![i].xhrSent = @ + 1]
            /\ UNCHANGED <<isProcessing, btnDisabled>>
    /\ UNCHANGED <<doc, trackMode, config, promptText, strategyLocals>>
    /\ HostCalls(GetSelectionScript)
    /\ UNCHANGED apiTestVars
    /\ UNCHANGED auxVars

\* xhr.onload with a status in 200..299 and a body with a response string.
LlmResolve(i) ==
    /\ calls[i].pc = "await"
    /\ \E r \in ReviewTexts :
          calls' = [calls EXCEPT ![i].pc = "apply", ![i].response = r]
    /\ UNCHANGED <<doc, trackMode, isProcessing, btnDisabled, config, promptText,
                   strategyLocals>>
    /\ HostCalls(<<>>)
    /\ UNCHANGED apiTestVars
    /\ UNCHANGED auxVars

\* xhr.onload with a body that has no response field: data.response is
\* undefined and response.substring throws.
LlmResolveUndefined(i) ==
    /\ calls[i].pc = "await"
    /\ Fail(i, "TypeError")
    /\ UNCHANGED <<doc, trackMode, config, promptText, strategyLocals>>
    /\ HostCalls(<<>>)
    /\ UNCHANGED apiTestVars
    /\ UNCHANGED auxVars

\* A failed request sent once more before the error is reported.
LlmReject_Retry(i) ==
    /\ calls[i].pc = "await"
    /\ IF calls[i].xhrSent < 2
       THEN /\ calls' = [calls EXCEPT ![i].xhrSent = @ + 1]
            /\ UNCHANGED <<isProcessing, btnDisabled>>
       ELSE \E kind \in LlmFailures : Fail(i, kind)
    /\ UNCHANGED <<doc, trackMode, config, promptText, strategyLocals>>
    /\ HostCalls(<<>>)
    /\ UNCHANGED apiTestVars
    /\ UNCHANGED auxVars

\* sendPromptToLLM rejects.
LlmReject(i) ==
    /\ calls[i].pc = "await"
    /\ \E kind \in LlmFailures : Fail(i, kind)
    /\ UNCHANGED <<doc, trackMode, config, promptText, strategyLocals>>
    /\ HostCalls(<<>>)
    /\ UNCHANGED apiTestVars
    /\ UNCHANGED auxVars

\* The range after a strategy has turned its text into the given text, the
\* change being recorded or not.
StrategyResult(d, text, tracked) ==
    IF text = VisibleText(d) THEN d
    ELSE IF tracked
    THEN [k \in 1..Len(d) |-> [d[k] EXCEPT !.del = TRUE]] \o NewCells(text)
    ELSE FillDoc(text)

\* The tracking mode handleReviewSelection asks for.
ConfigMode == IF config.trackChangesEnabled THEN "trackAll" ELSE "off"

\* The tracking mode set to the opposite of the configuration.
ApplyMode_Inverted == IF config.trackChangesEnabled THEN "off" ELSE "trackAll"

\* changeTrackingMode = config.trackChangesEnabled ? trackAll : off
ApplyMode == ConfigMode

\* 3. Apply Diff Logic: the selection is fetched again, the tracking mode is
\* set from the configuration and the configured strategy is applied to the
\* selection with the text read in step 1 and the response.  The strategy
\* returns or throws; it records in a scope of its own (scoped) or under the
\* mode it finds; on a selection that no longer reads the text of step 1 its
\* result is any text.
ApplyChanges(i) ==
    /\ calls[i].pc = "apply"
    /\ \E scoped \in BOOLEAN, ok \in BOOLEAN, result \in ReviewTexts :
          LET c == calls[i]
              tracked == scoped \/ ApplyMode = "trackAll"
              name == IF config.lineDiffEnabled THEN "applySentenceDiffStrategy"
                      ELSE "applyTokenMapStrategy"
              after == IF ok THEN StrategyResult(doc, result, tracked) ELSE doc
          IN  /\ (VisibleText(doc) = c.selectionText) => result = c.response
              /\ ~ok => (result = c.response /\ ~scoped)
              /\ doc' = after
              /\ trackMode' = IF scoped THEN "off" ELSE ApplyMode
              /\ calls' = [calls EXCEPT
                              ![i].pc = "returned",
                              ![i].selectionText = <<>>,
                              ![i].response = <<>>,
                              ![i].modeSets = @ + 1,
                              ![i].strategy = name,
                              ![i].mutated = (after # doc),
                              ![i].untracked = (after # doc /\ ~tracked),
                              ![i].log = IF ok THEN "success" ELSE "error",
                              ![i].error = IF ok THEN "none" ELSE "strategy"]
    /\ Finally
    /\ UNCHANGED <<config, promptText, strategyLocals>>
    /\ HostCalls(<<>>)
    /\ UNCHANGED apiTestVars
    /\ UNCHANGED auxVars

\* The user edits the selected text, or selects other text, while a call
\* waits for the service or for its second batch to start.
ExternalChange ==
    /\ \E i \in CallIds, t \in ReviewTexts :
          /\ calls[i].pc \in {"await", "apply"}
          /\ ~calls[i].disturbed
          /\ t # VisibleText(doc)
          /\ doc' = FillDoc(t)
          /\ calls' = [calls EXCEPT ![i].disturbed = TRUE]
    /\ UNCHANGED <<trackMode, isProcessing, btnDisabled, config, promptText,
                   strategyLocals>>
    /\ HostCalls(<<>>)
    /\ UNCHANGED apiTestVars
    /\ UNCHANGED auxVars

ReviewInit ==
    /\ diffs = <<>>
    /\ text1 = <<>>
    /\ text2 = <<>>
    /\ doc \in {FillDoc(t) : t \in ReviewTexts}
    /\ trackMode = "off"
    /\ pc = "review"
    /\ coarseRanges = <<>>
    /\ fineTokens = <<>>
    /\ deleteTargets = <<>>
    /\ tokenIndex = 0
    /\ di = 1
    /\ currentTokenIdx = 0
    /\ lastAnchor = NoToken
    /\ insertOps = <<>>
    /\ queue = <<>>
    /\ exc = "none"
    /\ unresolved = <<>>
    /\ thrown = "none"
    /\ cursor = 0
    /\ execCount = 0
    /\ resetCount = 0
    /\ secCount = 0
    /\ pending = {}
    /\ loaded = {}
    /\ unsyncedRead = FALSE
    /\ isProcessing = FALSE
    /\ btnDisabled = FALSE
    /\ config \in [trackChangesEnabled : BOOLEAN, lineDiffEnabled : BOOLEAN]
    /\ promptText \in {<<>>, <<"p">>}
    /\ calls = [i \in CallIds |-> NewCall]
    /\ AuxIdle
    /\ ApiTestsIdle

ReviewNext ==
    \/ \E i \in CallIds : Invoke(i)
    \/ \E i \in CallIds : ReadSelection(i)
    \/ \E i \in CallIds : LlmResolve(i)
    \/ \E i \in CallIds : LlmResolveUndefined(i)
    \/ \E i \in CallIds : LlmReject(i)
    \/ \E i \in CallIds : ApplyChanges(i)
    \/ ExternalChange

ReviewSpec == ReviewInit /\ [][ReviewNext]_vars

\* The awaited host and network calls of a running invocation complete: the
\* batch that reads the selection ends, the request to the service is
\* answered, fails or times out (xhr.timeout), and the batch that applies the
\* changes ends.  Nothing is assumed about new invocations or about the user.
ReviewFairness ==
    \A i \in CallIds :
        /\ WF_vars(ReadSelection(i))
        /\ WF_vars(LlmResolve(i) \/ LlmResolveUndefined(i) \/ LlmReject(i))
        /\ WF_vars(ApplyChanges(i))

ReviewLiveSpec == ReviewSpec /\ ReviewFairness

----------------------------------------------------------------------------
\* The text differ computeDiff(text1, text2): a shortest edit script over the
\* word-aware tokens of the two texts, runs of ops of one kind merged.

Max(a, b) == IF a > b THEN a ELSE b

\* Length of a longest common subsequence of two token sequences.
RECURSIVE LcsLen(_, _)
LcsLen(x, y) ==
    IF x = <<>> \/ y = <<>> THEN 0
    ELSE IF Head(x) = Head(y) THEN 1 + LcsLen(Tail(x), Tail(y))
    ELSE Max(LcsLen(Tail(x), y), LcsLen(x, Tail(y)))

\* One op per token: equal tokens as early as possible, otherwise the delete
\* or the insert that keeps a longest common subsequence reachable.
RECURSIVE TokenDiff(_, _)
TokenDiff(x, y) ==
    IF x = <<>> /\ y = <<>> THEN <<>>
    ELSE IF x = <<>> THEN <<<<OP_INSERT, Head(y)>>>> \o TokenDiff(x, Tail(y))
    ELSE IF y = <<>> THEN <<<<OP_DELETE, Head(x)>>>> \o TokenDiff(Tail(x), y)
    ELSE IF Head(x) = Head(y)
    THEN <<<<OP_EQUAL, Head(x)>>>> \o TokenDiff(Tail(x), Tail(y))
    ELSE IF LcsLen(Tail(x), y) >= LcsLen(x, Tail(y))
    THEN <<<<OP_DELETE, Head(x)>>>> \o TokenDiff(Tail(x), y)
    ELSE <<<<OP_INSERT, Head(y)>>>> \o TokenDiff(x, Tail(y))

\* Neighbouring ops of one kind become one op.
RECURSIVE MergeOps(_)
MergeOps(ops) ==
    IF Len(ops) <= 1 THEN ops
    ELSE LET rest == MergeOps(Tail(ops))
         IN  IF Head(ops)[1] = Head(rest)[1]
             THEN <<<<Head(ops)[1], Head(ops)[2] \o Head(rest)[2]>>>> \o Tail(rest)
             ELSE <<Head(ops)>> \o rest

\* The differ called with its two texts in the wrong order.
computeDiff_Swapped(a, b) == MergeOps(TokenDiff(RegexTokens(b), RegexTokens(a)))

computeDiff(a, b) == MergeOps(TokenDiff(RegexTokens(a), RegexTokens(b)))

DifferTexts == {<<>>} \cup MapperTexts

\* const diffs = computeDiff(text1, text2)
ComputeDiffStep ==
    /\ pc = "diff"
    /\ diffs' = computeDiff(text1, text2)
    /\ pc' = "diffed"
    /\ UNCHANGED <<text1, text2, doc, trackMode, coarseRanges, fineTokens,
                   deleteTargets, tokenIndex, di, currentTokenIdx, lastAnchor,
                   insertOps, queue, exc, unresolved, thrown, cursor, execCount,
                   resetCount, secCount>>
    /\ HostCalls(<<>>)
    /\ UNCHANGED reviewVars
    /\ UNCHANGED apiTestVars
    /\ UNCHANGED auxVars

DifferInit ==
    /\ text1 \in DifferTexts
    /\ text2 \in DifferTexts
    /\ diffs = <<>>
    /\ doc = FillDoc(text1)
    /\ trackMode = "off"
    /\ pc = "diff"
    /\ coarseRanges = <<>>
    /\ fineTokens = <<>>
    /\ deleteTargets = <<>>
    /\ tokenIndex = 0
    /\ di = 1
    /\ currentTokenIdx = 0
    /\ lastAnchor = NoToken
    /\ insertOps = <<>>
    /\ queue = <<>>
    /\ exc = "none"
    /\ unresolved = <<>>
    /\ thrown = "none"
    /\ cursor = 0
    /\ execCount = 0
    /\ resetCount = 0
    /\ secCount = 0
    /\ pending = {}
    /\ loaded = {}
    /\ unsyncedRead = FALSE
    /\ TaskpaneIdle
    /\ AuxIdle
    /\ ApiTestsIdle

DifferNext == ComputeDiffStep

DifferSpec == DifferInit /\ [][DifferNext]_vars

----------------------------------------------------------------------------
\* verifyTrackedChanges: tracked deletion of the part of a paragraph given by
\* an offset and a length, on any paragraph text and any target inside it.

\* text.slice(startOffset, startOffset + length)
Slice(text, from, to) == SubSeq(text, from + 1, Min(to, Len(text)))

\* The last match of the search taken as the target range.
TargetRange_Last(text, tgt) ==
    LET starts == {i \in 1..(Len(text) - Len(tgt) + 1) :
                      SubSeq(text, i, i + Len(tgt) - 1) = tgt}
        m == CHOOSE i \in starts : \A j \in starts : i >= j
    IN  [s |-> m, e |-> m + Len(tgt) - 1]

\* paragraph.search(target, {matchCase: true, matchWholeWord: false}).items[0]
TargetRange(text, tgt) ==
    LET m == FirstMatch(text, tgt)
    IN  [s |-> m, e |-> m + Len(tgt) - 1]

\* The paragraph text is loaded, the target is searched and the first match
\* is kept; a search without a match ends the test.
TrackedSearch ==
    /\ pc = "tsearch"
    /\ LET tgt == Slice(VisibleText(doc), target.startOffset,
                        target.startOffset + target.length)
       IN  \E found \in BOOLEAN :
              IF found
              THEN /\ target' = [target EXCEPT !.text = tgt,
                                     !.range = TargetRange(VisibleText(doc), tgt)]
                   /\ pc' = "tenable"
              ELSE /\ target' = [target EXCEPT !.text = tgt]
                   /\ pc' = "tdone"
    /\ UNCHANGED <<diffs, text1, text2, doc, trackMode, coarseRanges, fineTokens,
                   deleteTargets, tokenIndex, di, currentTokenIdx, lastAnchor,
                   insertOps, queue, exc, unresolved, thrown, cursor, execCount,
                   resetCount, secCount, body, loadedText>>
    /\ HostCalls(<<LoadOf("paragraph.text"), SyncCall, ReadOf("paragraph.text"),
                   LoadOf("targetResults.items"), SyncCall,
                   ReadOf("targetResults.items"), LoadOf("targetRange.text"),
                   SyncCall, ReadOf("targetRange.text")>>)
    /\ UNCHANGED reviewVars
    /\ UNCHANGED auxVars

\* changeTrackingMode = trackAll and a sync; a host that refuses ends the test.
TrackedEnable ==
    /\ pc = "tenable"
    /\ \E ok \in BOOLEAN :
          IF ok THEN trackMode' = "trackAll" /\ pc' = "tdelete"
          ELSE trackMode' = trackMode /\ pc' = "tdone"
    /\ UNCHANGED <<diffs, text1, text2, doc, coarseRanges, fineTokens,
                   deleteTargets, tokenIndex, di, currentTokenIdx, lastAnchor,
                   insertOps, queue, exc, unresolved, thrown, cursor, execCount,
                   resetCount, secCount>>
    /\ HostCalls(<<SyncCall>>)
    /\ UNCHANGED reviewVars
    /\ UNCHANGED apiTestVars
    /\ UNCHANGED auxVars

\* targetRange.delete(), sync, changeTrackingMode = off, sync.
TrackedDelete ==
    /\ pc = "tdelete"
    /\ doc' = DeleteRange(doc, target.range)
    /\ trackMode' = "off"
    /\ execCount' = execCount + 1
    /\ pc' = "tdone"
    /\ UNCHANGED <<diffs, text1, text2, coarseRanges, fineTokens,
                   deleteTargets, tokenIndex, di, currentTokenIdx, lastAnchor,
                   insertOps, queue, exc, unresolved, thrown, cursor,
                   resetCount, secCount>>
    /\ HostCalls(<<SyncCall, SyncCall>>)
    /\ UNCHANGED reviewVars
    /\ UNCHANGED apiTestVars
    /\ UNCHANGED auxVars

\* The targets inside a text: an offset and a length of at least one
\* character that stay within the text.
TargetsOf(text) ==
    {[startOffset |-> o, length |-> n, text |-> <<>>, range |-> NoRange] :
        o \in 0..(Len(text) - 1), n \in 1..Len(text)} 

TrackedInit ==
    /\ text1 \in MapperTexts
    /\ text2 = text1
    /\ diffs = <<>>
    /\ doc = FillDoc(text1)
    /\ trackMode = "off"
    /\ pc = "tsearch"
    /\ coarseRanges = <<>>
    /\ fineTokens = <<>>
    /\ deleteTargets = <<>>
    /\ tokenIndex = 0
    /\ di = 1
    /\ currentTokenIdx = 0
    /\ lastAnchor = NoToken
    /\ insertOps = <<>>
    /\ queue = <<>>
    /\ exc = "none"
    /\ unresolved = <<>>
    /\ thrown = "none"
    /\ cursor = 0
    /\ execCount = 0
    /\ resetCount = 0
    /\ secCount = 0
    /\ pending = {}
    /\ loaded = {}
    /\ unsyncedRead = FALSE
    /\ TaskpaneIdle
    /\ AuxIdle
    /\ target \in {t \in TargetsOf(text1) : t.startOffset + t.length <= Len(text1)}
    /\ body = <<>>
    /\ loadedText = <<>>

TrackedNext ==
    \/ TrackedSearch
    \/ TrackedEnable
    \/ TrackedDelete

TrackedSpec == TrackedInit /\ [][TrackedNext]_vars

----------------------------------------------------------------------------
\* verifyBlockDeletion: a paragraph is put at the start of the body and one
\* behind the paragraphs the body holds, the first one is deleted and the text
\* of the second one is read back.  text1 and text2 are their texts.

MaxBlocks == 1

BlockTexts == Chunks(1)

HeaderId == 0
P1Id == 1
P2Id == 2

Block(i, t) == [id |-> i, text |-> t, del |-> FALSE]

\* The paragraphs the body holds before the test, in order.
ExistingBodies ==
    UNION {{[k \in 1..n |-> Block(P2Id + k, f[k])] : f \in [1..n -> BlockTexts]} :
              n \in 0..MaxBlocks}

\* A deletion that takes the following paragraph along.
DeleteBlock_WithNext(b, i, tracked) ==
    LET hit == {k \in 1..Len(b) : b[k].id = i \/ (k > 1 /\ b[k - 1].id = i)}
    IN  IF tracked
        THEN [k \in 1..Len(b) |-> IF k \in hit THEN [b[k] EXCEPT !.del = TRUE] ELSE b[k]]
        ELSE SelectSeq(b, LAMBDA x : \A k \in hit : b[k] # x)

\* paragraph.delete(): the paragraph leaves the body, or stays as a tracked
\* deletion when changes are recorded.
DeleteBlock(b, i, tracked) ==
    IF tracked
    THEN [k \in 1..Len(b) |-> IF b[k].id = i THEN [b[k] EXCEPT !.del = TRUE] ELSE b[k]]
    ELSE SelectSeq(b, LAMBDA x : x.id # i)

\* The three insertParagraph calls and their sync; the host may refuse the
\* location given for the second paragraph, and the function then throws.
BlockSetup ==
    /\ pc = "bsetup"
    /\ \E accepted \in BOOLEAN :
          IF accepted
          THEN /\ body' = <<Block(HeaderId, <<"#">>), Block(P1Id, text1)>> \o body
                             \o <<Block(P2Id, text2)>>
               /\ pc' = "bdelete"
               /\ thrown' = thrown
          ELSE /\ body' = body
               /\ pc' = "bfailed"
               /\ thrown' = "InvalidArgument"
    /\ UNCHANGED <<diffs, text1, text2, doc, trackMode, coarseRanges, fineTokens,
                   deleteTargets, tokenIndex, di, currentTokenIdx, lastAnchor,
                   insertOps, queue, exc, unresolved, cursor, execCount,
                   resetCount, secCount, target, loadedText>>
    /\ HostCalls(<<SyncCall>>)
    /\ UNCHANGED reviewVars
    /\ UNCHANGED auxVars

\* p1.delete(); sync
BlockDelete ==
    /\ pc = "bdelete"
    /\ body' = DeleteBlock(body, P1Id, trackMode = "trackAll")
    /\ pc' = "bload"
    /\ UNCHANGED <<diffs, text1, text2, doc, trackMode, coarseRanges, fineTokens,
                   deleteTargets, tokenIndex, di, currentTokenIdx, lastAnchor,
                   insertOps, queue, exc, unresolved, thrown, cursor, execCount,
                   resetCount, secCount, target, loadedText>>
    /\ HostCalls(<<SyncCall>>)
    /\ UNCHANGED reviewVars
    /\ UNCHANGED auxVars

\* p2.load("text"); sync; the comparison with the text p2 was given.
BlockLoad ==
    /\ pc = "bload"
    /\ \E k \in 1..Len(body) :
          /\ body[k].id = P2Id
          /\ loadedText' = body[k].text
    /\ exc' = IF loadedText' = text2 THEN "SUCCESS" ELSE "FAILURE"
    /\ pc' = "bcleanup"
    /\ UNCHANGED <<diffs, text1, text2, doc, trackMode, coarseRanges, fineTokens,
                   deleteTargets, tokenIndex, di, currentTokenIdx, lastAnchor,
                   insertOps, queue, unresolved, thrown, cursor, execCount,
                   resetCount, secCount, target, body>>
    /\ HostCalls(<<LoadOf("p2.text"), SyncCall, ReadOf("p2.text")>>)
    /\ UNCHANGED reviewVars
    /\ UNCHANGED auxVars

\* p2.delete(); sync
BlockCleanup ==
    /\ pc = "bcleanup"
    /\ body' = DeleteBlock(body, P2Id, trackMode = "trackAll")
    /\ pc' = "bdone"
    /\ UNCHANGED <<diffs, text1, text2, doc, trackMode, coarseRanges, fineTokens,
                   deleteTargets, tokenIndex, di, currentTokenIdx, lastAnchor,
                   insertOps, queue, exc, unresolved, thrown, cursor, execCount,
                   resetCount, secCount, target, loadedText>>
    /\ HostCalls(<<SyncCall>>)
    /\ UNCHANGED reviewVars
    /\ UNCHANGED auxVars

BlockInit ==
    /\ text1 \in BlockTexts
    /\ text2 \in BlockTexts
    /\ diffs = <<>>
    /\ doc = <<>>
    /\ trackMode \in {"off", "trackAll"}
    /\ pc = "bsetup"
    /\ coarseRanges = <<>>
    /\ fineTokens = <<>>
    /\ deleteTargets = <<>>
    /\ tokenIndex = 0
    /\ di = 1
    /\ currentTokenIdx = 0
    /\ lastAnchor = NoToken
    /\ insertOps = <<>>
    /\ queue = <<>>
    /\ exc = "none"
    /\ unresolved = <<>>
    /\ thrown = "none"
    /\ cursor = 0
    /\ execCount = 0
    /\ resetCount = 0
    /\ secCount = 0
    /\ pending = {}
    /\ loaded = {}
    /\ unsyncedRead = FALSE
    /\ TaskpaneIdle
    /\ AuxIdle
    /\ target = NoTarget
    /\ body \in ExistingBodies
    /\ loadedText = <<>>

BlockNext ==
    \/ BlockSetup
    \/ BlockDelete
    \/ BlockLoad
    \/ BlockCleanup

BlockSpec == BlockInit /\ [][BlockNext]_vars

----------------------------------------------------------------------------
\* The parts of the program that do not touch the document strategies.

coreVars == <<strategyLocals, doc, trackMode, pending, loaded, unsyncedRead>>

\* No strategy is running.
CoreIdle ==
    /\ diffs = <<>>
    /\ text1 = <<>>
    /\ text2 = <<>>
    /\ doc = <<>>
    /\ trackMode = "off"
    /\ coarseRanges = <<>>
    /\ fineTokens = <<>>
    /\ deleteTargets = <<>>
    /\ tokenIndex = 0
    /\ di = 1
    /\ currentTokenIdx = 0
    /\ lastAnchor = NoToken
    /\ insertOps = <<>>
    /\ queue = <<>>
    /\ exc = "none"
    /\ unresolved = <<>>
    /\ thrown = "none"
    /\ cursor = 0
    /\ execCount = 0
    /\ resetCount = 0
    /\ secCount = 0
    /\ pending = {}
    /\ loaded = {}
    /\ unsyncedRead = FALSE

----------------------------------------------------------------------------
\* Settings: the configuration, saveSettings, loadSettings at the start of the
\* add-in.  The empty string stands for an empty input and for an environment
\* variable that is not set.

FormUrls == {"", "u"}
FormKeys == {"", "k"}
FormModels == {"", "m"}
ServerModels == {"m", "s"}
Envs == [DEFAULT_OLLAMA_URL : {"", "e"}, DEFAULT_MODEL : {"", "d"}]

\* a || b
OrElse(a, b) == IF a # "" THEN a ELSE b

\* let config = { ... }: the defaults of a build with the given environment.
Defaults(e) ==
    [ollamaUrl |-> OrElse(e.DEFAULT_OLLAMA_URL, "/ollama"),
     apiKey |-> "",
     selectedModel |-> OrElse(e.DEFAULT_MODEL, "gpt-oss:20b"),
     trackChangesEnabled |-> TRUE,
     lineDiffEnabled |-> FALSE]

StringKeys == <<"ollamaUrl", "apiKey", "selectedModel">>

BooleanKeys == <<"trackChangesEnabled", "lineDiffEnabled">>

\* JSON.stringify(config): the members in order, each with the kind and the
\* text of its value.
Stringify(cfg) ==
    [i \in 1..Len(StringKeys) |-> <<StringKeys[i], "string", cfg[StringKeys[i]]>>]
    \o [i \in 1..Len(BooleanKeys) |->
           <<BooleanKeys[i], "boolean",
             IF cfg[BooleanKeys[i]] THEN "true" ELSE "false">>]

\* JSON.parse(saved): an object with the members of the text.
Parse(item) ==
    [k \in {item[i][1] : i \in 1..Len(item)} |->
        LET i == CHOOSE j \in 1..Len(item) : item[j][1] = k
        IN  IF item[i][2] = "boolean" THEN item[i][3] = "true" ELSE item[i][3]]

\* The defaults written over what was stored.
Spread_DefaultsWin(base, over) ==
    [k \in DOMAIN base \cup DOMAIN over |->
        IF k \in DOMAIN base THEN base[k] ELSE over[k]]

\* { ...base, ...over }
Spread(base, over) ==
    [k \in DOMAIN base \cup DOMAIN over |->
        IF k \in DOMAIN over THEN over[k] ELSE base[k]]

\* saveSettings: the configuration is rebuilt from the form and written to
\* localStorage; setItem may throw.
SaveSettings ==
    /\ pc \in {"started", "running"}
    /\ \E url \in FormUrls, key \in FormKeys, model \in FormModels,
          trackChanges \in BOOLEAN, lineDiff \in BOOLEAN, stored \in BOOLEAN :
          /\ config' = [ollamaUrl |-> OrElse(url, OrElse(env.DEFAULT_OLLAMA_URL,
                                                         "/ollama")),
                        apiKey |-> key,
                        selectedModel |-> OrElse(model, config.selectedModel),
                        trackChangesEnabled |-> trackChanges,
                        lineDiffEnabled |-> lineDiff]
          /\ IF stored
             THEN /\ storage' = Stringify(config')
                  /\ savedConfig' = [saved |-> TRUE, config |-> config']
             ELSE UNCHANGED <<storage, savedConfig>>
    /\ pc' = "running"
    /\ UNCHANGED <<diffs, text1, text2, coarseRanges, fineTokens, deleteTargets,
                   tokenIndex, di, currentTokenIdx, lastAnchor, insertOps, queue,
                   exc, unresolved, thrown, cursor, execCount, resetCount,
                   secCount, doc, trackMode, pending, loaded, unsyncedRead>>
    /\ UNCHANGED <<isProcessing, btnDisabled, promptText, calls, env>>
    /\ UNCHANGED <<apiTestVars, promptVars, serverVars, loopVars, apiVars>>

\* populateModels: the selected model is not in the list of the server and
\* another one is selected, in memory only.
PopulateModels ==
    /\ pc \in {"started", "running"}
    /\ config.selectedModel \notin ServerModels
    /\ \E m \in ServerModels : config' = [config EXCEPT !.selectedModel = m]
    /\ pc' = "running"
    /\ UNCHANGED <<diffs, text1, text2, coarseRanges, fineTokens, deleteTargets,
                   tokenIndex, di, currentTokenIdx, lastAnchor, insertOps, queue,
                   exc, unresolved, thrown, cursor, execCount, resetCount,
                   secCount, doc, trackMode, pending, loaded, unsyncedRead>>
    /\ UNCHANGED <<isProcessing, btnDisabled, promptText, calls>>
    /\ UNCHANGED <<apiTestVars, auxVars>>

\* The next start of the add-in, possibly of a build with another
\* environment: the module sets the defaults and initialize calls
\* loadSettings.
Restart ==
    /\ pc \in {"started", "running"}
    /\ \E e \in Envs :
          /\ env' = e
          /\ config' = IF storage # <<>> THEN Spread(Defaults(e), Parse(storage))
                        ELSE Defaults(e)
    /\ pc' = "started"
    /\ UNCHANGED <<diffs, text1, text2, coarseRanges, fineTokens, deleteTargets,
                   tokenIndex, di, currentTokenIdx, lastAnchor, insertOps, queue,
                   exc, unresolved, thrown, cursor, execCount, resetCount,
                   secCount, doc, trackMode, pending, loaded, unsyncedRead>>
    /\ UNCHANGED <<isProcessing, btnDisabled, promptText, calls, storage,
                   savedConfig>>
    /\ UNCHANGED <<apiTestVars, promptVars, serverVars, loopVars, apiVars>>

SettingsInit ==
    /\ CoreIdle
    /\ pc = "started"
    /\ isProcessing = FALSE
    /\ btnDisabled = FALSE
    /\ promptText = <<>>
    /\ calls = NoCalls
    /\ ApiTestsIdle
    /\ env \in Envs
    /\ config = Defaults(env)
    /\ storage = <<>>
    /\ savedConfig = NoConfig
    /\ PromptsIdle
    /\ ServerIdle
    /\ LoopPaused
    /\ ApiIdle

SettingsNext ==
    \/ SaveSettings
    \/ PopulateModels
    \/ Restart

SettingsSpec == SettingsInit /\ [][SettingsNext]_vars

----------------------------------------------------------------------------
\* Prompt management: the in-memory list prompts, the item wordAI.prompts of
\* localStorage, the prompt selector, loadPrompts and the handlers.

\* toLowerCase on the letters of the names used here.
ToLowerCase(c) ==
    CASE c = "A" -> "a"
      [] c = "L" -> "l"
      [] c = "R" -> "r"
      [] c = "P" -> "p"
      [] c = "E" -> "e"
      [] OTHER -> c

\* name.toLowerCase().replace(/\s+/g, '-'): every run of white space becomes
\* one hyphen.
RECURSIVE PromptId(_)
PromptId(name) ==
    IF name = <<>> THEN <<>>
    ELSE IF Head(name) = " "
    THEN IF Len(name) > 1 /\ name[2] = " "
         THEN PromptId(Tail(name))
         ELSE <<"-">> \o PromptId(Tail(name))
    ELSE <<ToLowerCase(Head(name))>> \o PromptId(Tail(name))

LegalReview == <<"L", "e", "g", "a", "l", " ", "R", "e", "v", "i", "e", "w">>

PlainEnglish == <<"P", "l", "a", "i", "n", " ", "E", "n", "g", "l", "i", "s", "h">>

\* initializeDefaultPrompts()
initializeDefaultPrompts ==
    <<[id |-> PromptId(LegalReview), name |-> LegalReview, template |-> "legal"],
      [id |-> PromptId(PlainEnglish), name |-> PlainEnglish, template |-> "plain"]>>

\* The names and templates the user enters, trimmed.
PromptNames == {<<"A">>, <<"a">>, <<"a", " ", " ", "A">>}

PromptTemplates == {"t", "u"}

\* The lists GET /api/prompts may answer with.
ServerLists ==
    {<<>>, initializeDefaultPrompts,
     initializeDefaultPrompts \o <<[id |-> <<"a">>, name |-> <<"a">>, template |-> "s"]>>}

\* The lists that an earlier session may have left in localStorage.
StoredLists == {<<>>, <<[id |-> <<"a">>, name |-> <<"A">>, template |-> "t"]>>}

IdsOf(list) == [i \in 1..Len(list) |-> list[i].id]

\* renderPrompts: one option per prompt, in order.
renderPrompts(list) == IdsOf(list)

\* The list with the prompt of that id replaced in place, or appended.
Upsert(list, prompt) ==
    IF \E i \in 1..Len(list) : list[i].id = prompt.id
    THEN LET existingIndex == CHOOSE i \in 1..Len(list) :
                 /\ list[i].id = prompt.id
                 /\ \A j \in 1..(i - 1) : list[j].id # prompt.id
         IN  [list EXCEPT ![existingIndex] = prompt]
    ELSE Append(list, prompt)

promptsUnchanged ==
    UNCHANGED <<coreVars, reviewVars, apiTestVars, settingsVars, serverVars,
                loopVars, apiVars>>

\* initialize calls loadPrompts without awaiting it: the fetch is sent and
\* the handlers are installed.
StartLoadPrompts ==
    /\ loadPc = "idle"
    /\ loadPc' = "fetching"
    /\ UNCHANGED <<prompts, promptStore, options, savedIds>>
    /\ promptsUnchanged

\* loadPrompts after the fetch: the answer of the server becomes the list.
LoadPromptsFromServer ==
    /\ loadPc = "fetching"
    /\ \E list \in ServerLists :
          /\ prompts' = list
          /\ options' = renderPrompts(list)
    /\ loadPc' = "done"
    /\ UNCHANGED <<promptStore, savedIds>>
    /\ promptsUnchanged

\* loadPrompts after a failed fetch: localStorage, or the defaults.
LoadPromptsFallback ==
    /\ loadPc = "fetching"
    /\ prompts' = IF promptStore.saved THEN promptStore.list
                  ELSE initializeDefaultPrompts
    /\ options' = renderPrompts(prompts')
    /\ loadPc' = "done"
    /\ UNCHANGED <<promptStore, savedIds>>
    /\ promptsUnchanged

\* handleSavePrompt with a name and a template; setItem may throw.
HandleSavePrompt ==
    /\ loadPc \in {"fetching", "done"}
    /\ \E name \in PromptNames, template \in PromptTemplates, stored \in BOOLEAN :
          LET newPrompt == [id |-> PromptId(name), name |-> name,
                            template |-> template]
          IN  /\ prompts' = Upsert(prompts, newPrompt)
              /\ promptStore' = IF stored THEN [saved |-> TRUE, list |-> prompts']
                                ELSE promptStore
              /\ options' = renderPrompts(prompts')
              /\ savedIds' = savedIds \cup {newPrompt.id}
    /\ UNCHANGED loadPc
    /\ promptsUnchanged

\* handleDeletePrompt for the selected option, confirmed; setItem may throw.
HandleDeletePrompt ==
    /\ loadPc \in {"fetching", "done"}
    /\ \E k \in 1..Len(options), stored \in BOOLEAN :
          LET promptId == options[k]
          IN  /\ \E i \in 1..Len(prompts) : prompts[i].id = promptId
              /\ prompts' = SelectSeq(prompts, LAMBDA q : q.id # promptId)
              /\ promptStore' = IF stored THEN [saved |-> TRUE, list |-> prompts']
                                ELSE promptStore
              /\ options' = renderPrompts(prompts')
              /\ savedIds' = savedIds \ {promptId}
    /\ UNCHANGED loadPc
    /\ promptsUnchanged

PromptsInit ==
    /\ CoreIdle
    /\ pc = "prompts"
    /\ TaskpaneIdle
    /\ ApiTestsIdle
    /\ SettingsIdle
    /\ prompts = <<>>
    /\ promptStore \in {[saved |-> FALSE, list |-> <<>>]}
                       \cup {[saved |-> TRUE, list |-> l] : l \in StoredLists}
    /\ loadPc = "idle"
    /\ options = <<>>
    /\ savedIds = {}
    /\ ServerIdle
    /\ LoopPaused
    /\ ApiIdle

PromptsNext ==
    \/ StartLoadPrompts
    \/ LoadPromptsFromServer
    \/ LoadPromptsFallback
    \/ HandleSavePrompt
    \/ HandleDeletePrompt

PromptsSpec == PromptsInit /\ [][PromptsNext]_vars

----------------------------------------------------------------------------
\* The static server: safeJoin and requestHandler.  A path is a sequence of
\* segments, a segment a sequence of characters; the string of a path has a
\* slash before every segment.

MaxSegments == 3

DotDot == <<".", ".">>

Dot == <<".">>

ManifestXml == <<"m">>

TaskpaneHtml == <<"t">>

\* The names that occur in request paths: a file, the manifest, the name of
\* the dist directory, a name that starts with the name of the dist
\* directory, the dot segments and the empty segment (two slashes in a row,
\* or a slash at the end).
SegmentNames == {<<"x">>, ManifestXml, <<"d">>, <<"d", "2">>, DotDot, Dot, <<>>}

rootDir == <<<<"r">>>>

\* path.join(rootDir, 'dist')
distDir == rootDir \o <<<<"d">>>>

\* path.join(rootDir, 'manifest.xml')
manifestPath == rootDir \o <<ManifestXml>>

\* The decoded paths of the requests: '' has no segment, '/' one empty
\* segment.
UrlPaths ==
    UNION {[1..n -> SegmentNames] : n \in 0..MaxSegments}

RECURSIVE PathString(_)
PathString(segments) ==
    IF segments = <<>> THEN <<>>
    ELSE <<"/">> \o Head(segments) \o PathString(Tail(segments))

\* path.resolve: empty and '.' segments are dropped, '..' removes the
\* segment before it and stays at the root.
RECURSIVE Normalize(_, _)
Normalize(done, rest) ==
    IF rest = <<>> THEN done
    ELSE IF Head(rest) = <<>> \/ Head(rest) = Dot
    THEN Normalize(done, Tail(rest))
    ELSE IF Head(rest) = DotDot
    THEN Normalize(IF done = <<>> THEN <<>> ELSE SubSeq(done, 1, Len(done) - 1),
                   Tail(rest))
    ELSE Normalize(Append(done, Head(rest)), Tail(rest))

\* path.resolve(baseDir, `.${targetPath}`)
Resolve(baseDir, targetPath) == Normalize(baseDir, <<Dot>> \o targetPath)

\* safeJoin: resolvedPath.startsWith(baseDir) on the strings of the paths.
safeJoin(baseDir, targetPath) ==
    LET resolvedPath == Resolve(baseDir, targetPath)
    IN  IF StartsWith(PathString(resolvedPath), PathString(baseDir))
        THEN [ok |-> TRUE, path |-> resolvedPath]
        ELSE [ok |-> FALSE, path |-> <<>>]

\* requestHandler for one request.
RequestHandler ==
    /\ \E urlPath \in UrlPaths :
          /\ reqPath' = urlPath
          /\ served' =
                IF urlPath = <<>> \/ urlPath = <<<<>>>>
                THEN [kind |-> "file", file |-> distDir \o <<TaskpaneHtml>>]
                ELSE IF urlPath = <<ManifestXml>>
                THEN [kind |-> "file", file |-> manifestPath]
                ELSE LET filePath == safeJoin(distDir, urlPath)
                     IN  IF ~filePath.ok
                         THEN [kind |-> "400", file |-> <<>>]
                         ELSE [kind |-> "file", file |-> filePath.path]
    /\ UNCHANGED <<coreVars, reviewVars, apiTestVars, settingsVars, promptVars,
                   loopVars, apiVars>>

ServerInit ==
    /\ CoreIdle
    /\ pc = "server"
    /\ TaskpaneIdle
    /\ ApiTestsIdle
    /\ AuxIdle

ServerNext == RequestHandler

ServerSpec == ServerInit /\ [][ServerNext]_vars

----------------------------------------------------------------------------
\* The E2E loop control: global.e2eLoopControl and the handlers of
\* /api/e2e-loop/status, /trigger and /pause.

MaxRequests == 5

loopUnchanged ==
    UNCHANGED <<coreVars, reviewVars, apiTestVars, settingsVars, promptVars,
                serverVars, apiVars>>

\* GET /api/e2e-loop/status
LoopStatus ==
    /\ Len(requests) < MaxRequests
    /\ lastStatus' = [canProceed |-> control.canProceed,
                      waitingForTrigger |->
                          (~control.canProceed \/ control.waitingForTrigger)]
    /\ requests' = Append(requests, "status")
    /\ UNCHANGED control
    /\ loopUnchanged

\* The trigger handler leaving waitingForTrigger as it is.
LoopTrigger_KeepWaiting ==
    /\ Len(requests) < MaxRequests
    /\ control' = [control EXCEPT !.canProceed = TRUE]
    /\ requests' = Append(requests, "trigger")
    /\ UNCHANGED lastStatus
    /\ loopUnchanged

\* POST /api/e2e-loop/trigger
LoopTrigger ==
    /\ Len(requests) < MaxRequests
    /\ control' = [canProceed |-> TRUE, waitingForTrigger |-> FALSE]
    /\ requests' = Append(requests, "trigger")
    /\ UNCHANGED lastStatus
    /\ loopUnchanged

\* POST /api/e2e-loop/pause
LoopPause ==
    /\ Len(requests) < MaxRequests
    /\ control' = [canProceed |-> FALSE, waitingForTrigger |-> TRUE]
    /\ requests' = Append(requests, "pause")
    /\ UNCHANGED lastStatus
    /\ loopUnchanged

\* The middleware is set up again in the same process: the control object
\* that exists is kept (global.e2eLoopControl || { ... }).
LoopSetup ==
    /\ Len(requests) < MaxRequests
    /\ requests' = Append(requests, "setup")
    /\ UNCHANGED <<control, lastStatus>>
    /\ loopUnchanged

LoopInit ==
    /\ CoreIdle
    /\ pc = "loop"
    /\ TaskpaneIdle
    /\ ApiTestsIdle
    /\ AuxIdle

LoopNext ==
    \/ LoopStatus
    \/ LoopTrigger
    \/ LoopPause
    \/ LoopSetup

LoopSpec == LoopInit /\ [][LoopNext]_vars

----------------------------------------------------------------------------
\* The prompts API of the development server: GET, POST and DELETE on
\* /api/prompts over prompts.json and user-prompts.json.  The empty string
\* stands for a member that is missing from the body of a request.

ApiIds == {"", "a", "b", "d"}

ApiNames == {"", "n"}

ApiTemplates == {"", "t", "u"}

ApiPrompt(id, name, template) == [id |-> id, name |-> name, template |-> template]

\* The contents prompts.json may have; the second holds an id twice.
DefaultFiles ==
    {<<ApiPrompt("d", "D", "dt"), ApiPrompt("e", "E", "et")>>,
     <<ApiPrompt("d", "D", "dt"), ApiPrompt("e", "E", "et"),
       ApiPrompt("d", "D2", "dt2")>>}

\* promptsMap.set(p.id, p): the value of an existing key is replaced where
\* the key stands, a new key is added at the end.
MapSet(entries, p) ==
    IF \E i \in 1..Len(entries) : entries[i].id = p.id
    THEN [i \in 1..Len(entries) |->
             IF entries[i].id = p.id THEN p ELSE entries[i]]
    ELSE Append(entries, p)

\* list.forEach(p => promptsMap.set(p.id, p))
RECURSIVE MapSetAll(_, _)
MapSetAll(entries, list) ==
    IF list = <<>> THEN entries
    ELSE MapSetAll(MapSet(entries, Head(list)), Tail(list))

\* Array.from(promptsMap.values()) after the defaults and then the user
\* prompts were set.
allPrompts(defaultPrompts, users) ==
    MapSetAll(MapSetAll(<<>>, defaultPrompts), users)

\* The POST handler pushing every prompt.
UpdateOrCreate_AlwaysPush(users, newPrompt) == Append(users, newPrompt)

\* findIndex by id: the entry is replaced in place, or the prompt is pushed.
UpdateOrCreate(users, newPrompt) ==
    IF \E i \in 1..Len(users) : users[i].id = newPrompt.id
    THEN LET existingIndex == CHOOSE i \in 1..Len(users) :
                 /\ users[i].id = newPrompt.id
                 /\ \A j \in 1..(i - 1) : users[j].id # newPrompt.id
         IN  [users EXCEPT ![existingIndex] = newPrompt]
    ELSE Append(users, newPrompt)

apiUnchanged ==
    UNCHANGED <<coreVars, reviewVars, apiTestVars, settingsVars, promptVars,
                serverVars, loopVars>>

\* GET /api/prompts; reading a file may fail.
GetPrompts ==
    /\ \E defaultPrompts \in DefaultFiles, readable \in BOOLEAN :
          apiResponse' =
              IF readable
              THEN [kind |-> "get", status |-> 200,
                    body |-> allPrompts(defaultPrompts, userPrompts),
                    defaults |-> defaultPrompts, before |-> userPrompts]
              ELSE [kind |-> "get", status |-> 500, body |-> <<>>,
                    defaults |-> <<>>, before |-> userPrompts]
    /\ UNCHANGED userPrompts
    /\ apiUnchanged

\* POST /api/prompts; reading or writing the file may fail.
PostPrompt ==
    /\ \E id \in ApiIds, name \in ApiNames, template \in ApiTemplates,
          writable \in BOOLEAN :
          LET newPrompt == ApiPrompt(id, name, template)
          IN  IF id = "" \/ name = "" \/ template = ""
              THEN /\ apiResponse' = [kind |-> "post", status |-> 400,
                                      body |-> <<>>, defaults |-> <<>>,
                                      before |-> userPrompts]
                   /\ UNCHANGED userPrompts
              ELSE IF ~writable
              THEN /\ apiResponse' = [kind |-> "post", status |-> 500,
                                      body |-> <<>>, defaults |-> <<>>,
                                      before |-> userPrompts]
                   /\ UNCHANGED userPrompts
              ELSE /\ userPrompts' = UpdateOrCreate(userPrompts, newPrompt)
                   /\ apiResponse' = [kind |-> "post", status |-> 200,
                                      body |-> <<newPrompt>>, defaults |-> <<>>,
                                      before |-> userPrompts]
    /\ apiUnchanged

\* DELETE /api/prompts/:id
DeletePrompt ==
    /\ \E promptId \in ApiIds \ {""} :
          LET filteredPrompts == SelectSeq(userPrompts, LAMBDA q : q.id # promptId)
          IN  IF Len(filteredPrompts) = Len(userPrompts)
              THEN /\ apiResponse' = [kind |-> "delete", status |-> 404,
                                      body |-> <<>>, defaults |-> <<>>,
                                      before |-> userPrompts]
                   /\ UNCHANGED userPrompts
              ELSE /\ userPrompts' = filteredPrompts
                   /\ apiResponse' = [kind |-> "delete", status |-> 200,
                                      body |-> <<>>, defaults |-> <<>>,
                                      before |-> userPrompts]
    /\ apiUnchanged

\* user-prompts.json does not exist when the server is first used.
ApiInit ==
    /\ CoreIdle
    /\ pc = "api"
    /\ TaskpaneIdle
    /\ ApiTestsIdle
    /\ AuxIdle

ApiNext ==
    \/ GetPrompts
    \/ PostPrompt
    \/ DeletePrompt

ApiSpec == ApiInit /\ [][ApiNext]_vars

----------------------------------------------------------------------------
\* Properties

Ended == pc \in {"done", "failed"}

\* C1: when the call has ended, the text of the range is the revised text, or
\* it is exactly the original text and an error has been reported.
C1_AtomicOutcome ==
    Ended =>
        \/ VisibleText(doc) = text2
        \/ (VisibleText(doc) = text1 /\ thrown # "none")

\* C2: whenever the secondary strategy is about to issue its first request,
\* the reset has been committed: the range holds exactly the original text,
\* with no trace of the failed primary attempt and nothing left in the queue.
C2_ResetBeforeSecondary ==
    (pc = "secondary" \/ (pc = "replay" /\ di = 1)) =>
        /\ doc = [i \in 1..Len(text1) |-> [ch |-> text1[i], id |-> i, del |-> FALSE]]
        /\ VisibleText(doc) = text1
        /\ queue = <<>>
        /\ resetCount = 1

\* The primary attempt had switched tracking on at the host before its commit
\* was rejected, and the secondary strategy is about to start.
C2_Witness ==
    /\ pc = "secondary"
    /\ exc = "ExecutionError"
    /\ trackMode = "trackAll"
    /\ \E i \in 1..Len(diffs) : diffs[i][1] = OP_DELETE

PhaseRank(p) ==
    CASE p = "coarse" -> 1
      [] p = "search" -> 2
      [] p = "pass1" -> 3
      [] p = "pass2" -> 4
      [] p = "execute" -> 5
      [] p = "commit" -> 6
      [] p = "catch" -> 7
      [] p = "secondary" -> 8
      [] p = "replay" -> 9
      [] p = "finish" -> 10
      [] OTHER -> 11

\* C3: the plan is executed at most once, the range is reset at most once and
\* the secondary strategy is started at most once; a failure of the replay
\* ends the request with an error for the caller; no step leads back to an
\* earlier phase.
C3_AtMostOneFallback ==
    /\ [](execCount <= 1 /\ resetCount <= 1 /\ secCount <= 1)
    /\ [][(pc = "replay" /\ pc' \notin {"replay", "finish"})
              => (pc' = "failed" /\ thrown' \in {"ChunkNotFound", "HostRejection"})]_vars
    /\ [][\/ PhaseRank(pc') > PhaseRank(pc)
          \/ (pc' = pc /\ di' > di)]_vars

\* The plan was executed, its commit was rejected, and the replay failed too.
C3_Witness ==
    /\ pc = "failed"
    /\ thrown = "ChunkNotFound"
    /\ execCount = 1
    /\ secCount = 1

LocalErrors == {"TokenResolutionError", "AlignmentError"}

\* C4: a token mapping failure or a token mismatch of Pass 2 lands in the
\* catch clause, from where the next step is the reset; neither is ever the
\* error that reaches the caller.
C4_LocalErrorsHandled ==
    /\ [](thrown \notin LocalErrors)
    /\ [][(exc' \in LocalErrors /\ exc = "none")
              => (pc' = "catch" /\ thrown' = "none")]_vars
    /\ [][(pc = "catch" /\ exc \in LocalErrors)
              => \/ (pc' = "secondary" /\ resetCount' = resetCount + 1)
                 \/ (pc' = "failed" /\ thrown' = "HostRejection")]_vars
    /\ [](Ended => (exc \in LocalErrors => (secCount = 1 \/ thrown = "HostRejection")))

\* A token mismatch was caught, and the request was completed by the replay.
C4_Witness ==
    /\ pc = "done"
    /\ exc = "AlignmentError"
    /\ secCount = 1
    /\ thrown = "none"

\* A request that changes the paragraph or the tracking mode when it executes.
IsMutation(r) == r.kind \in {"delete", "insert", "mode"}

\* The requests of a queue that change something.
Mutations(q) == SelectSeq(q, IsMutation)

EqualMismatch(chunk, idx, remaining) ==
    \E k \in 0..(Len(remaining) - idx - 1) :
        LET pre == Concat([j \in 1..k |-> remaining[idx + j].text])
        IN  /\ StartsWith(chunk, pre)
            /\ Len(pre) < Len(chunk)
            /\ ~StartsWith(SliceFrom(chunk, Len(pre)), remaining[idx + k + 1].text)

\* C6: a step of Pass 2 on an Equal op whose text runs into a surviving token
\* that is not a prefix of what is left of it raises the alignment error and
\* leaves no plan; a step that goes through has consumed surviving tokens that
\* spell a prefix of the op's text; no plan is executed after the error.
C6_EqualPrefixGate ==
    /\ [][(pc = "pass2" /\ diffs[di][1] = OP_EQUAL)
            => LET remaining == TokensAfterDeletes(fineTokens, deleteTargets)
                   chunk == diffs[di][2]
               IN  IF EqualMismatch(chunk, currentTokenIdx, remaining)
                   THEN /\ pc' = "catch"
                        /\ exc' = "AlignmentError"
                        /\ insertOps' = <<>>
                        /\ deleteTargets' = <<>>
                        /\ Mutations(queue') = <<>>
                        /\ doc' = doc
                   ELSE /\ pc' \in {"pass2", "execute"}
                        /\ currentTokenIdx' >= currentTokenIdx
                        /\ StartsWith(chunk,
                               Concat([j \in 1..(currentTokenIdx' - currentTokenIdx) |->
                                          remaining[currentTokenIdx + j].text]))]_vars
    /\ [](exc = "AlignmentError" => execCount = 0)

\* The alignment error was raised by an Equal op "-a" on the range "-aa": the
\* op had consumed the token "-" and then met the token "aa".
C6_Witness ==
    /\ pc = "catch"
    /\ exc = "AlignmentError"
    /\ diffs[1] = <<OP_EQUAL, <<"-", "a">>>>
    /\ text1 = <<"-", "a", "a">>

IsDelete(rq) == rq.kind = "delete"
IsInsert(rq) == rq.kind = "insert"

\* C7: in the requests queued by one execution, the deletes come in strictly
\* descending order of token index, and no delete comes after an insert.
C7_DeleteOrder ==
    \A i, j \in 1..Len(queue) :
        i < j =>
            /\ (IsDelete(queue[i]) /\ IsDelete(queue[j])) => queue[i].tok > queue[j].tok
            /\ IsInsert(queue[i]) => ~IsDelete(queue[j])

\* An execution with two deletes and an insert is waiting for its commit.
C7_Witness ==
    /\ pc = "commit"
    /\ Cardinality({i \in 1..Len(queue) : IsDelete(queue[i])}) >= 2
    /\ \E i \in 1..Len(queue) : IsInsert(queue[i])

Planning == pc \in {"pass1", "pass2", "execute", "commit"}

\* Number of tokens the Equal and Delete ops of a diff re-tokenize to.
RECURSIVE DiffTokenCount(_)
DiffTokenCount(ds) ==
    IF ds = <<>> THEN 0
    ELSE (IF Head(ds)[1] \in {OP_EQUAL, OP_DELETE}
          THEN Len(RegexTokens(Head(ds)[2])) ELSE 0) + DiffTokenCount(Tail(ds))

\* C8: every delete target is a token of the token map, with its index in
\* [0, N); no token is a delete target twice; every insert operation is
\* anchored to the start of the range or to the range of a token of the map
\* with its index in [0, N).
C8_PlanSoundness ==
    Planning =>
        LET N == Len(fineTokens)
        IN  /\ \A i \in 1..Len(deleteTargets) :
                   /\ deleteTargets[i].index \in 0..(N - 1)
                   /\ deleteTargets[i] = fineTokens[deleteTargets[i].index + 1]
            /\ \A i, j \in 1..Len(deleteTargets) :
                   i # j => deleteTargets[i].index # deleteTargets[j].index
            /\ \A k \in 1..Len(insertOps) :
                   \/ /\ insertOps[k].tok = -1
                      /\ insertOps[k].range = StartRange
                   \/ /\ insertOps[k].tok \in 0..(N - 1)
                      /\ insertOps[k].range = fineTokens[insertOps[k].tok + 1].range

\* A plan with a delete target is complete for a diff whose Equal and Delete
\* ops have more tokens than the token map.
C8_Witness ==
    /\ pc = "execute"
    /\ deleteTargets # <<>>
    /\ DiffTokenCount(diffs) > Len(fineTokens)

InsertCount(ds) == Cardinality({i \in 1..Len(ds) : ds[i][1] = OP_INSERT})

C10_AnchorsSurvive ==
    Planning =>
        \A k \in 1..Len(insertOps), i \in 1..Len(deleteTargets) :
            insertOps[k].tok # deleteTargets[i].index

\* A complete plan with a delete target and an insert anchored to a token.
C10_Witness ==
    /\ pc = "execute"
    /\ deleteTargets # <<>>
    /\ \E k \in 1..Len(insertOps) : insertOps[k].tok >= 0

\* Number of tokens the Delete ops of a diff re-tokenize to.
RECURSIVE DeleteTokenCount(_)
DeleteTokenCount(ds) ==
    IF ds = <<>> THEN 0
    ELSE (IF Head(ds)[1] = OP_DELETE
          THEN Len(RegexTokens(Head(ds)[2])) ELSE 0) + DeleteTokenCount(Tail(ds))

TokenTexts(tokens) == [i \in 1..Len(tokens) |-> tokens[i].text]

\* C12: the tokens of a token map carry the indices 0..N-1 in the order of
\* the sequence, and their texts concatenated in that order are the full text
\* of the range: token i is the piece of the text that starts where the texts
\* of the tokens before it end.  The same holds for the tokens of a paragraph
\* block, one per coarse range.
C12_TokenCompleteness ==
    /\ Planning =>
           /\ \A i \in 1..Len(fineTokens) : fineTokens[i].index = i - 1
           /\ Concat(TokenTexts(fineTokens)) = VisibleText(doc)
           /\ \A i \in 1..Len(fineTokens) :
                  LET before == Len(Concat(TokenTexts(SubSeq(fineTokens, 1, i - 1))))
                  IN  fineTokens[i].text =
                          SubSeq(VisibleText(doc), before + 1,
                                 before + Len(fineTokens[i].text))
    /\ pc = "search" =>
           LET tokens == ParagraphBlockTokens(coarseRanges)
           IN  /\ \A i \in 1..Len(tokens) : tokens[i].index = i - 1
               /\ Concat(TokenTexts(tokens)) = VisibleText(doc)
               /\ ParagraphBlockText(coarseRanges) = VisibleText(doc)

\* A token map over two coarse ranges, with more tokens than coarse ranges, is
\* handed to Pass 1.
C12_Witness ==
    /\ pc = "pass1"
    /\ di = 1
    /\ Len(coarseRanges) >= 2
    /\ Len(fineTokens) > Len(coarseRanges)

\* C13: the texts of the tokens of a token map are, in order, the tokens the
\* differ's tokenization gives for the full text of the range (its maximal
\* runs of word, of non-word non-space, and of whitespace characters).
C13_SameTokenization ==
    (pc = "pass1" /\ di = 1 /\ tokenIndex = 0) =>
        TokenTexts(fineTokens) = RegexTokens(VisibleText(doc))

\* C14: the step that processes the search results either hands the planner
\* the complete token map, one token per fine token of the coarse ranges, or
\* raises the token mapping failure, which names one of the fine tokens and
\* leaves no token map; after that failure no token map exists and neither
\* the planner nor the executor runs.
C14_NoPartialTokenMap ==
    /\ [][pc = "search"
            => LET proxies == SearchProxies(coarseRanges)
               IN  \/ /\ pc' = "pass1"
                      /\ exc' = "none"
                      /\ Len(fineTokens') = Len(proxies)
                      /\ \A i \in 1..Len(proxies) :
                             fineTokens'[i].text = proxies[i].text
                   \/ /\ pc' = "catch"
                      /\ exc' = "TokenResolutionError"
                      /\ \E i \in 1..Len(proxies) : unresolved' = proxies[i].text
                      /\ fineTokens' = <<>>]_vars
    /\ [](exc = "TokenResolutionError" =>
             /\ ~Planning
             /\ fineTokens = <<>>
             /\ deleteTargets = <<>>
             /\ insertOps = <<>>
             /\ execCount = 0)

\* The search for the second token "-" of the range "a-" came back empty: the
\* failure names it, after the token "a" had been resolved.
C14_Witness ==
    /\ pc = "catch"
    /\ exc = "TokenResolutionError"
    /\ text1 = <<"a", "-">>
    /\ unresolved = <<"-">>

\* C15: when the primary strategy has completed without an error (the commit
\* went through and no fallback was taken), the text of the range with the
\* tracked changes accepted is the revised text; for a diff without a Delete
\* op the plan had no delete target, so nothing of the original was deleted.
C15_PrimaryResult ==
    (pc = "done" /\ exc = "none" /\ execCount = 1 /\ secCount = 0) =>
        /\ VisibleText(doc) = text2
        /\ DeleteTokenCount(diffs) = 0 => \A i \in 1..Len(doc) : ~doc[i].del

\* C16: after the alignment error of Pass 2, also when it comes from a token
\* whose text was corrupted, the secondary strategy starts on exactly the
\* original text, every Equal and Delete chunk of the replay is there to be
\* found behind the cursor, and when the replay has completed the range reads
\* what the primary strategy gives for the same diff on the uncorrupted map.
C16_FallbackEquivalence ==
    /\ (pc = "secondary" /\ exc = "AlignmentError") =>
           doc = [i \in 1..Len(text1) |-> [ch |-> text1[i], id |-> i, del |-> FALSE]]
    /\ (pc = "replay" /\ exc = "AlignmentError"
            /\ diffs[di][1] \in {OP_EQUAL, OP_DELETE}) =>
           SearchFrom(doc, cursor, diffs[di][2]) # <<>>
    /\ (pc = "done" /\ exc = "AlignmentError" /\ PrimaryTexts(diffs) # {}) =>
           VisibleText(doc) \in PrimaryTexts(diffs)

\* Text of the cells at the given positions of the paragraph.
CellText(d, cells) == [i \in 1..Len(cells) |-> d[cells[i]].ch]

\* The positions are consecutive cells of the text behind the cursor that
\* spell the chunk, and the chunk does not occur earlier behind the cursor.
IsFirstMatchBehind(d, pos, cells, chunk) ==
    LET live == LiveCellsFrom(d, pos)
    IN  \E m \in 1..Len(live) :
            /\ cells = SubSeq(live, m, m + Len(chunk) - 1)
            /\ CellText(d, cells) = chunk
            /\ \A n \in 1..(m - 1) :
                   CellText(d, SubSeq(live, n, n + Len(chunk) - 1)) # chunk

\* C17: a step of the replay that goes on to the next op never moves the
\* cursor backward; for an Equal op the cursor goes to the end of the first
\* occurrence of the chunk behind it and the text is not changed; for a Delete
\* op exactly the cells of the first occurrence of the chunk behind the cursor
\* are deleted and the cursor stays; for an Insert op the chunk is put right
\* behind the cursor and the cursor goes to its end; no token map exists while
\* the replay runs.
C17_CursorReplay ==
    /\ [][(pc = "replay" /\ pc' \in {"replay", "finish"})
            => LET op == diffs[di]
                   chunk == op[2]
                   changed == {i \in 1..Len(doc) : doc'[i] # doc[i]}
               IN  /\ (pc' = "replay" /\ di' = di + 1)
                          \/ (pc' = "finish" /\ di = Len(diffs))
                   /\ cursor' >= cursor
                   /\ op[1] = OP_EQUAL =>
                          /\ doc' = doc
                          /\ cursor' >= cursor + Len(chunk)
                          /\ IsFirstMatchBehind(doc, cursor,
                                 LET live == LiveCellsFrom(doc, cursor)
                                 IN  SelectSeq(live,
                                         LAMBDA c : c <= cursor' /\
                                             Cardinality({x \in 1..Len(live) :
                                                 live[x] > c /\ live[x] <= cursor'})
                                                 < Len(chunk)),
                                 chunk)
                   /\ op[1] = OP_DELETE =>
                          /\ cursor' = cursor
                          /\ Len(doc') = Len(doc)
                          /\ \A i \in changed :
                                 /\ i > cursor
                                 /\ ~doc[i].del
                                 /\ doc'[i] = [doc[i] EXCEPT !.del = TRUE]
                          /\ IsFirstMatchBehind(doc, cursor,
                                 SelectSeq(LiveCellsFrom(doc, cursor),
                                           LAMBDA c : c \in changed),
                                 chunk)
                   /\ op[1] = OP_INSERT =>
                          /\ cursor' = cursor + Len(chunk)
                          /\ SubSeq(doc', 1, cursor) = SubSeq(doc, 1, cursor)
                          /\ SubSeq(doc', cursor' + 1, Len(doc'))
                                 = SubSeq(doc, cursor + 1, Len(doc))
                          /\ \A i \in 1..Len(chunk) :
                                 doc'[cursor + i] =
                                     [ch |-> chunk[i], id |-> 0, del |-> FALSE]]_vars
    /\ [](pc \in {"replay", "finish"} =>
             (fineTokens = <<>> /\ deleteTargets = <<>> /\ insertOps = <<>>))

\* A replay with an Equal, a Delete and an Insert op has gone through all its
\* ops and has moved the cursor.
C17_Witness ==
    /\ pc = "finish"
    /\ cursor > 0
    /\ \A k \in {OP_EQUAL, OP_DELETE, OP_INSERT} :
           \E i \in 1..Len(diffs) : diffs[i][1] = k

\* C18: the step in which the replay does not find a chunk is a step on an
\* Equal or a Delete op; it reports the error to the caller and ends the
\* request, it leaves the paragraph as the earlier ops made it and changes
\* nothing else; after it no step is taken: no later op is replayed, nothing
\* is reset and no strategy is started again.
C18_ChunkNotFoundIsTerminal ==
    /\ [][(thrown' = "ChunkNotFound" /\ thrown # "ChunkNotFound")
            => /\ pc = "replay"
               /\ diffs[di][1] \in {OP_EQUAL, OP_DELETE}
               /\ thrown = "none"
               /\ pc' = "failed"
               /\ UNCHANGED <<doc, cursor, di, queue, trackMode, resetCount,
                              secCount, execCount>>]_vars
    /\ [][thrown # "ChunkNotFound"]_vars

\* The replay has stopped at a chunk it did not find, after an earlier op had
\* changed the paragraph and with ops still to come.
C18_Witness ==
    /\ pc = "failed"
    /\ thrown = "ChunkNotFound"
    /\ di > 1
    /\ di < Len(diffs)
    /\ doc # [i \in 1..Len(text1) |-> [ch |-> text1[i], id |-> i, del |-> FALSE]]

PrimaryPhases == {"coarse", "search", "pass1", "pass2", "execute", "commit"}

\* C19: when the execution phase waits for its sync, the queue holds the
\* switch of tracking to trackAll, one delete per delete target, one insert
\* per insert operation and the switch of tracking back to off, and none of
\* them has taken effect; the paragraph and the tracking mode change in the
\* primary attempt only by the step of that one sync, which empties the queue
\* and ends the attempt.
C19_SingleCommit ==
    /\ [](pc = "commit" =>
             /\ Len(Mutations(queue)) = Len(deleteTargets) + Len(insertOps) + 2
             /\ Mutations(queue)[1] = ModeRequest("trackAll")
             /\ queue[Len(queue)] = ModeRequest("off")
             /\ \A i \in 2..(Len(Mutations(queue)) - 1) :
                    Mutations(queue)[i].kind \in {"delete", "insert"}
             /\ Cardinality({i \in 1..Len(queue) : IsDelete(queue[i])})
                    = Len(deleteTargets)
             /\ Cardinality({i \in 1..Len(queue) : IsInsert(queue[i])})
                    = Len(insertOps)
             /\ doc = [i \in 1..Len(text1) |-> [ch |-> text1[i], id |-> i, del |-> FALSE]]
             /\ trackMode = "off"
             /\ execCount = 1)
    /\ [](pc \in PrimaryPhases \ {"commit"} => Mutations(queue) = <<>>)
    /\ [][(pc \in PrimaryPhases /\ (doc' # doc \/ trackMode' # trackMode))
              => pc = "commit"]_vars
    /\ [][pc = "commit"
              => (queue' = <<>> /\ pc' \in {"done", "catch"}
                  /\ execCount' = execCount)]_vars

\* The one sync of an execution with a delete and an insert has gone through:
\* the paragraph holds a deleted and an inserted cell.
C19_Witness ==
    /\ pc = "done"
    /\ exc = "none"
    /\ execCount = 1
    /\ \E i \in 1..Len(doc) : doc[i].del
    /\ \E i \in 1..Len(doc) : doc[i].id = 0

\* Values a procedure has read when it is at the given position.
ValuesRead(p) ==
    CASE p = "search" -> {}
      [] p \in {"pass1", "pass2", "execute", "commit"} ->
            {"coarseRanges.items", "coarseRanges.text", "searchResults.items"}
      [] p = "tokenized" -> {"tokenRanges.items", "range.text"}
      [] p = "selected" -> {"selection.text"}
      [] OTHER -> {}

\* C20: no step reads a value that has not been loaded, that is, whose load
\* was not queued before a sync that came before the read: the values a
\* procedure has read so far are loaded, and between two steps no load is
\* left waiting for its sync.
C20_ReadAfterSync ==
    /\ ~unsyncedRead
    /\ ValuesRead(pc) \subseteq loaded
    /\ pending = {}
    /\ (pc = "replay" /\ di > 1 /\ diffs[di - 1][1] \in {OP_EQUAL, OP_DELETE}) =>
           "replayResults.items" \in loaded

\* The token map has been built from the coarse ranges and the search
\* results the mapper read after SYNC 2 and SYNC 3.
C20_Witness ==
    /\ pc = "pass1"
    /\ Len(fineTokens) >= 2
    /\ {"coarseRanges.items", "coarseRanges.text", "searchResults.items"}
           \subseteq loaded

\* The synchronization boundaries of the primary attempt: SYNC 2 and SYNC 3 of
\* the token mapper, SYNC 4 of the executor.
MapperSyncs == {"coarse", "search"}

ExecutorSyncs == {"commit"}

PlanningPhases == {"pass1", "pass2"}

\* Position of a phase in one primary attempt.
PrimaryRank(p) ==
    CASE p \in MapperSyncs -> 1
      [] p \in PlanningPhases -> 2
      [] p = "execute" -> 3
      [] p \in ExecutorSyncs -> 4
      [] OTHER -> 5

\* C21 as stated: the phases of one primary attempt come in the order token
\* mapper syncs, planning, executor sync, and a step of Pass 1 or Pass 2
\* issues no request against the host at all: nothing is queued, loaded,
\* synced or changed.
C21_PlanningIssuesNoRequest ==
    /\ [][(pc \in PrimaryPhases /\ pc' \in PrimaryPhases)
              => PrimaryRank(pc') >= PrimaryRank(pc)]_vars
    /\ [][(pc \in PlanningPhases)
              => (/\ queue' = queue
                  /\ pending' = pending
                  /\ loaded' = loaded
                  /\ doc' = doc
                  /\ trackMode' = trackMode)]_vars

\* C21, amended: the phases of one primary attempt come in the order token
\* mapper syncs, planning, executor sync; a step of Pass 1 or Pass 2 syncs
\* nothing, loads nothing and queues no change; the one request planning
\* issues is the getRange call of Pass 2 for an Insert op met before any
\* anchor, which stays in the queue until the executor's sync.
C21_PlanningQueuesNoChange ==
    /\ [][(pc \in PrimaryPhases /\ pc' \in PrimaryPhases)
              => PrimaryRank(pc') >= PrimaryRank(pc)]_vars
    /\ [][(pc \in PlanningPhases)
              => (/\ \/ queue' = queue
                     \/ /\ pc = "pass2"
                        /\ diffs[di][1] = OP_INSERT
                        /\ lastAnchor = NoToken
                        /\ queue' = Append(queue, GetRangeRequest)
                  /\ Mutations(queue') = <<>>
                  /\ pending' = pending
                  /\ loaded' = loaded
                  /\ doc' = doc
                  /\ trackMode' = trackMode)]_vars
    /\ [][(pc \in PrimaryPhases /\ loaded' # loaded) => pc \in MapperSyncs]_vars

\* Planning is over with a delete target collected by Pass 1 and the getRange
\* call of Pass 2 waiting in the queue.
C21_Witness ==
    /\ pc = "execute"
    /\ deleteTargets # <<>>
    /\ \E i \in 1..Len(queue) : queue[i] = GetRangeRequest

\* C22: when the change request has ended, by the success of either strategy
\* or by an error thrown to the caller, tracked-change recording is off.
C22_TrackingRestored ==
    Ended => trackMode = "off"

\* The range d2 is the range d1 with tracked changes added: the cells of d1
\* are all there, some marked deleted, followed by inserted cells.
OnlyTrackedChanges(d1, d2) ==
    /\ Len(d2) >= Len(d1)
    /\ \A k \in 1..Len(d1) : d2[k].ch = d1[k].ch /\ d2[k].id = d1[k].id
    /\ \A k \in (Len(d1) + 1)..Len(d2) : d2[k].id = 0

C24_InputErrorsRejected ==
    [][\A i \in CallIds :
          /\ (calls[i].pc = "selection" /\ calls'[i].pc # "selection"
                  /\ IsBlank(VisibleText(doc)))
                => /\ calls'[i].pc = "returned"
                   /\ calls'[i].log = "error"
                   /\ calls'[i].xhrSent = 0
                   /\ calls'[i].modeSets = 0
                   /\ doc' = doc
                   /\ trackMode' = trackMode
          /\ (calls[i].pc = "apply" /\ calls'[i].pc # "apply"
                  /\ calls[i].response = <<>>)
                => /\ calls'[i].pc = "returned"
                   /\ calls'[i].log = "error"
                   /\ calls'[i].modeSets = 0
                   /\ doc' = doc
                   /\ trackMode' = trackMode]_vars

\* C25: a call sends at most one request to the service; when the request
\* fails, the call ends in that step with the error in the log, without a
\* second request, without having set the tracking mode and without a change
\* of the document.
C25_OneRequestNoRetry ==
    /\ [](\A i \in CallIds : calls[i].xhrSent <= 1)
    /\ [](\A i \in CallIds :
             calls[i].error \in LlmFailures
                 => /\ calls[i].pc = "returned"
                    /\ calls[i].log = "error"
                    /\ calls[i].xhrSent = 1
                    /\ calls[i].modeSets = 0
                    /\ ~calls[i].mutated)
    /\ [][\A i \in CallIds :
             (calls[i].pc = "await" /\ calls'[i].error \in LlmFailures)
                 => (doc' = doc /\ trackMode' = trackMode /\ ~isProcessing')]_vars

\* The request of a call has timed out and the call has returned.
C25_Witness ==
    \E i \in CallIds :
        /\ calls[i].pc = "returned"
        /\ calls[i].error = "Request timeout"
        /\ calls[i].xhrSent = 1

\* C26: when a call is about to apply the strategy, the selection reads the
\* text the call read in its first step; and while a call is between its
\* first step and the application nothing but that call changes the
\* selection.
C26_NoInterleavedMutation ==
    /\ [](\A i \in CallIds :
             calls[i].pc = "apply" => VisibleText(doc) = calls[i].selectionText)
    /\ [][\A i \in CallIds :
             (calls[i].pc \in {"await", "apply"} /\ calls'[i].pc = calls[i].pc)
                 => doc' = doc]_vars

FallbackPhases == {"secondary", "replay", "finish"}

\* C27: from the reset on, the fallback holds no coarse range, no token, no
\* delete target, no insert operation and no anchor of the primary attempt,
\* and no request of the primary attempt waits in the queue; a step of the
\* replay changes the range only at cells its own search from the cursor has
\* just found (Delete) or right behind its cursor (Insert), and it has loaded
\* and synced that search.
C27_NoStaleHandles ==
    /\ [](pc \in FallbackPhases =>
             /\ coarseRanges = <<>>
             /\ fineTokens = <<>>
             /\ deleteTargets = <<>>
             /\ insertOps = <<>>
             /\ lastAnchor = NoToken
             /\ queue = <<>>)
    /\ [][(pc = "replay" /\ doc' # doc)
              => LET op == diffs[di]
                     match == SearchFrom(doc, cursor, op[2])
                 IN  /\ op[1] # OP_EQUAL
                     /\ op[1] = OP_DELETE =>
                            /\ match # <<>>
                            /\ doc' = DeleteCells(doc, match)
                            /\ "replayResults.items" \in loaded'
                     /\ op[1] = OP_INSERT =>
                            doc' = InsertAt(doc, cursor, op[2])]_vars

\* The primary attempt had built its token map and its plan and its commit
\* was rejected after some of its deletes; the replay has then deleted a chunk
\* of the restored range.
C27_Witness ==
    /\ pc \in {"replay", "finish"}
    /\ exc = "ExecutionError"
    /\ \E i \in 1..Len(diffs) : diffs[i][1] = OP_DELETE
    /\ \E i \in 1..Len(doc) : doc[i].del
    /\ "replayResults.items" \in loaded

\* C28: the ops the differ returns for two texts spell the revised text with
\* their Equal and Insert chunks and the original text with their Equal and
\* Delete chunks; no op is empty and no two neighbouring ops are of one kind.
C28_Reconstruction ==
    pc = "diffed" =>
        /\ RevisedOf(diffs) = text2
        /\ OriginalOf(diffs) = text1
        /\ \A k \in 1..Len(diffs) : diffs[k][2] # <<>>
        /\ \A k \in 1..(Len(diffs) - 1) : diffs[k][1] # diffs[k + 1][1]

\* The differ has returned a script with an Equal, a Delete and an Insert op
\* for two different texts.
C28_Witness ==
    /\ pc = "diffed"
    /\ text1 # text2
    /\ \A o \in {OP_EQUAL, OP_DELETE, OP_INSERT} :
           \E k \in 1..Len(diffs) : diffs[k][1] = o

\* The text without the characters at positions offset..offset+length-1.
RemoveAt(text, offset, length) ==
    SubSeq(text, 1, offset) \o SliceFrom(text, offset + length)

\* C29 as stated: once the target range has been deleted, the text of the
\* paragraph with the changes accepted is the original text without the
\* characters at positions offset..offset+length-1.
C29_OffsetDeletion ==
    (pc = "tdone" /\ execCount = 1) =>
        VisibleText(doc) = RemoveAt(text1, target.startOffset, target.length)

\* C29, amended: once the target range has been deleted, the text of the
\* paragraph with the changes accepted is the original text without the
\* first occurrence of the target substring, the deletion is a tracked one,
\* and this is the text without the characters at offset..offset+length-1
\* whenever the substring does not occur before the offset.
C29_FirstOccurrenceDeletion ==
    (pc = "tdone" /\ execCount = 1) =>
        LET m == FirstMatch(text1, target.text)
        IN  /\ target.text = Slice(text1, target.startOffset,
                                   target.startOffset + target.length)
            /\ m >= 1
            /\ m <= target.startOffset + 1
            /\ VisibleText(doc) = RemoveAt(text1, m - 1, target.length)
            /\ Len(doc) = Len(text1)
            /\ \A k \in 1..Len(doc) :
                   doc[k].del <=> (k >= m /\ k < m + target.length)
            /\ (m = target.startOffset + 1) =>
                   VisibleText(doc) = RemoveAt(text1, target.startOffset,
                                               target.length)

\* A target in the middle of the text that does not occur before its offset
\* has been deleted as a tracked change.
C29_Witness ==
    /\ pc = "tdone"
    /\ execCount = 1
    /\ target.startOffset >= 1
    /\ target.startOffset + target.length < Len(text1)
    /\ FirstMatch(text1, target.text) = target.startOffset + 1
    /\ \E k \in 1..Len(doc) : doc[k].del

\* The paragraphs of a body other than the one with the given id, in order.
Siblings(b, i) == SelectSeq(b, LAMBDA x : x.id # i)

C31_SettingsPersist ==
    (pc = "started" /\ savedConfig.saved) =>
        /\ \A k \in {"ollamaUrl", "apiKey", "selectedModel",
                      "trackChangesEnabled", "lineDiffEnabled"} :
               config[k] = savedConfig.config[k]
        /\ DOMAIN config = DOMAIN savedConfig.config
        /\ storage = Stringify(savedConfig.config)

\* The add-in has started with an environment whose defaults all differ from
\* the saved values, after a save that stored tracking off and line diff on.
C31_Witness ==
    /\ pc = "started"
    /\ savedConfig.saved
    /\ ~savedConfig.config.trackChangesEnabled
    /\ savedConfig.config.lineDiffEnabled
    /\ savedConfig.config.ollamaUrl # Defaults(env).ollamaUrl
    /\ savedConfig.config.selectedModel # Defaults(env).selectedModel
    /\ savedConfig.config.apiKey # ""

\* The invocations that have set isProcessing and have not returned.
InProgress == {i \in CallIds : calls[i].pc \in {"selection", "await", "apply"}}

\* C32: at most one invocation of handleReviewSelection is in progress, and
\* an invocation made while isProcessing is true returns at once with the
\* warning, having sent no request to the service, set no tracking mode, and
\* left the document, the queue and the request context as they were.
C32_OneReviewAtATime ==
    /\ [](Cardinality(InProgress) <= 1)
    /\ [][\A i \in CallIds :
             (calls[i].pc = "idle" /\ calls'[i].pc # "idle" /\ isProcessing) =>
                 (/\ calls'[i].pc = "returned"
                  /\ calls'[i].log = "warning"
                  /\ calls'[i].error = "Already processing a request"
                  /\ calls'[i].xhrSent = 0
                  /\ calls'[i].modeSets = 0
                  /\ calls'[i].strategy = "none"
                  /\ isProcessing'
                  /\ UNCHANGED <<doc, trackMode, queue, pending, loaded,
                                 unsyncedRead>>
                  /\ \A j \in CallIds \ {i} : calls'[j] = calls[j])]_vars

\* The second invocation was turned away with the warning while the first
\* one waits for the service.
C32_Witness ==
    \E i \in CallIds, j \in CallIds :
        /\ calls[i].pc = "await"
        /\ calls[j].pc = "returned"
        /\ calls[j].error = "Already processing a request"
        /\ isProcessing

\* The concatenated text of the Equal ops of a diff.
EqualOpsText(d) ==
    LET eq == SelectSeq(d, LAMBDA op : op[1] = OP_EQUAL)
    IN  Concat([i \in 1..Len(eq) |-> eq[i][2]])

\* The concatenated text of the tokens that Pass 1 did not mark.
SurvivingText ==
    LET remaining == TokensAfterDeletes(fineTokens, deleteTargets)
    IN  Concat([i \in 1..Len(remaining) |-> remaining[i].text])

\* C33: when Pass 2 has ended without an AlignmentError, every surviving
\* token was consumed and the text of the surviving tokens is the text of the
\* Equal ops.
C33_LockStep ==
    (pc = "execute") =>
        /\ currentTokenIdx = Len(TokensAfterDeletes(fineTokens, deleteTargets))
        /\ SurvivingText = EqualOpsText(diffs)

\* Two ranges of the document with a position in common.
Overlapping(r1, r2) == r1.s <= r2.e /\ r2.s <= r1.e

\* C34: two tokens of the token map with different indices never have the
\* same range nor ranges with a document position in common.
C34_TokensApart ==
    \A i \in 1..Len(fineTokens), j \in 1..Len(fineTokens) :
        (fineTokens[i].index # fineTokens[j].index) =>
            ~Overlapping(fineTokens[i].range, fineTokens[j].range)

\* C35: whenever isProcessing is true it becomes false again, with the
\* review button enabled, and the flag is never on while no invocation is
\* between setting it and returning.
C35_ProcessingEnds ==
    /\ isProcessing ~> (~isProcessing /\ ~btnDisabled)
    /\ [](InProgress = {} => (~isProcessing /\ ~btnDisabled))

\* An invocation has ended with a failure of the strategy and the flag is
\* off again.
C35_Witness ==
    \E i \in CallIds :
        /\ calls[i].pc = "returned"
        /\ calls[i].error = "strategy"
        /\ ~isProcessing
        /\ ~btnDisabled

\* C36: every prompt saved with handleSavePrompt and not deleted since is in
\* the in-memory list and in the prompt selector.
C36_SavedPromptStays ==
    \A id \in savedIds :
        /\ \E i \in 1..Len(prompts) : prompts[i].id = id
        /\ \E k \in 1..Len(options) : options[k] = id

\* The path lies in the dist directory.
InsideDist(file) ==
    /\ Len(file) >= Len(distDir)
    /\ SubSeq(file, 1, Len(distDir)) = distDir

\* C37: the file the request handler reads is inside the dist directory,
\* or is the manifest of the project for the path /manifest.xml; every other
\* request is answered with 400.
C37_ServedInsideDist ==
    (served.kind = "file") =>
        \/ InsideDist(served.file)
        \/ (reqPath = <<ManifestXml>> /\ served.file = manifestPath)

\* A trigger was received after the most recent pause, or after the start
\* when there was no pause.
TriggeredSincePause ==
    \E k \in 1..Len(requests) :
        /\ requests[k] = "trigger"
        /\ \A j \in (k + 1)..Len(requests) : requests[j] # "pause"

\* C38: the loop control starts paused; canProceed is true only if a trigger
\* was received after the most recent pause or after the start (and then it
\* is true); exactly one of canProceed and waitingForTrigger is true; a
\* status response reports the control as it is and never reports
\* waitingForTrigger false with canProceed false.
C38_LoopControl ==
    /\ (requests = <<>>) =>
           (control = [canProceed |-> FALSE, waitingForTrigger |-> TRUE])
    /\ control.canProceed <=> TriggeredSincePause
    /\ control.canProceed # control.waitingForTrigger
    /\ ~lastStatus.canProceed => lastStatus.waitingForTrigger
    /\ (requests # <<>> /\ requests[Len(requests)] = "status") =>
           (lastStatus = control)

\* The loop was paused, then triggered, and the status was read: the
\* response reports that the loop can proceed.
C38_Witness ==
    /\ Len(requests) >= 3
    /\ \E k \in 1..Len(requests) : \E l \in (k + 1)..Len(requests) :
           requests[k] = "pause" /\ requests[l] = "trigger"
    /\ requests[Len(requests)] = "status"
    /\ control.canProceed
    /\ lastStatus.canProceed
    /\ ~lastStatus.waitingForTrigger

\* No id occurs twice in the list.
UniqueIds(list) ==
    \A i \in 1..Len(list), j \in 1..Len(list) :
        (list[i].id = list[j].id) => (i = j)

\* C39: the answer of GET /api/prompts holds every id of the default and
\* of the user prompts exactly once, with the user prompt for an id that
\* both have; the stored user prompts hold at most one entry per id; a
\* successful POST with an id that is stored replaces that entry where it
\* stands and leaves the others, and one with a new id appends the prompt.
C39_PromptsById ==
    /\ UniqueIds(userPrompts)
    /\ (apiResponse.kind = "get" /\ apiResponse.status = 200) =>
           /\ UniqueIds(apiResponse.body)
           /\ {apiResponse.body[i].id : i \in 1..Len(apiResponse.body)}
                  = {apiResponse.defaults[i].id : i \in 1..Len(apiResponse.defaults)}
                    \cup {userPrompts[i].id : i \in 1..Len(userPrompts)}
           /\ \A i \in 1..Len(userPrompts) :
                  \E k \in 1..Len(apiResponse.body) :
                      apiResponse.body[k] = userPrompts[i]
    /\ (apiResponse.kind = "post" /\ apiResponse.status = 200) =>
           LET before == apiResponse.before
               newPrompt == apiResponse.body[1]
           IN  IF \E i \in 1..Len(before) : before[i].id = newPrompt.id
               THEN /\ Len(userPrompts) = Len(before)
                    /\ \A i \in 1..Len(before) :
                           userPrompts[i] = IF before[i].id = newPrompt.id
                                            THEN newPrompt ELSE before[i]
               ELSE userPrompts = Append(before, newPrompt)

\* GET has answered with a user prompt in the place of the default prompt
\* of the same id, after that prompt was posted twice.
C39_Witness ==
    /\ apiResponse.kind = "get"
    /\ apiResponse.status = 200
    /\ Len(userPrompts) >= 2
    /\ \E i \in 1..Len(userPrompts) :
           /\ userPrompts[i].id = "d"
           /\ userPrompts[i].template = "u"
           /\ i < Len(userPrompts)
    /\ Len(apiResponse.defaults) = 3
    /\ apiResponse.body[1].id = "d"
    /\ apiResponse.body[1].template = "u"
====
